---- MODULE Spec2Model ----
(***************************************************************************)
(* A model of green-comtrade-bench: the baseline purple agent's retrieval  *)
(* engine (baseline_purple/purple_agent.py) and the judge's scorer with    *)
(* its governance gates (src/judge.py).                                    *)
(*                                                                         *)
(* SpecFetch  : PurpleAgent._fetch_all_pages and _fetch_with_retry against *)
(*              a source that may answer every GET in any way.             *)
(* SpecScore  : judge.score_output, one step per section of the function,  *)
(*              on an artifact whose contents are read when the code reads *)
(*              them.                                                      *)
(***************************************************************************)
EXTENDS Integers, Sequences, FiniteSets, TLC

(***************************************************************************)
(* Bounds of the model.                                                    *)
(***************************************************************************)
MaxPageSize == 2
MaxRequests == 2
MaxTotalRows == 3
MaxRows == 2
MaxInputRows == 3
MaxTasks == 3
MaxGradings == 2
MaxChunks == 2
MaxReadFailures == 3

VARIABLES
    \* ---- retrieval engine (purple_agent.py) ----
    fpc,            \* position in _fetch_all_pages: idle, loop, get, body, done
    paging_mode,    \* argument of _fetch_all_pages
    page_size,      \* argument of _fetch_all_pages
    max_requests,   \* argument of _fetch_all_pages
    total_rows,     \* argument of _fetch_all_pages
    page,           \* local of the page branch
    offset,         \* local of the offset branch
    all_rows,       \* local accumulator, the return value
    attempt,        \* loop variable of _fetch_with_retry
    result,         \* what _fetch_with_retry returned to _fetch_all_pages
    clock,          \* time spent in time.sleep
    \* ---- history of the retrieval, kept for the properties ----
    nGets,          \* session.get calls made since _fetch_all_pages started
    reqLog,         \* one record per _fetch_with_retry call
    curGets,        \* session.get calls made by the current _fetch_with_retry
    curWaits,       \* the sleeps of the current _fetch_with_retry, in order
    allTransient,   \* every answer of the current call was 429/500/transport
    lastWait,       \* the sleep made after the latest session.get (0: none)
    delivered,      \* rows the source handed over in non-empty 200 bodies
    failedAt,       \* nGets when a _fetch_with_retry returned None (-1: never)
    permSeen,       \* an HTTP error status other than 429/500 was received
    permSlept,      \* a backoff sleep followed such a status
    permRetried,    \* a session.get was made after such a status
    \* ---- scorer (judge.py, score_output) ----
    spc,            \* position in score_output
    task_mode,      \* task_expected["fault_injection"]["mode"]
    files_present,  \* how many of REQUIRED_FILES exist in output_dir
    missing,        \* the REQUIRED_FILES that do not exist in output_dir
    metaHas,        \* the needed_meta_fields that are keys of metadata.json
    row_count_actual, \* non-blank lines of data.jsonl
    log_text,       \* what the tests on run.log's text find
    breakdown,      \* the six dimension scores, in units of 1/Scale point
    raw,            \* the breakdown as computed, before the governance gates
    governance_applied, \* the gates that fired, in order
    total,          \* ScoreResult.total, in units of 1/Scale point
    outcome,        \* how score_output ended: "ScoreResult", or the exception
    return_site,    \* which return statement of score_output produced the result
    \* ---- row processing (purple_agent.py, _process_rows) ----
    ppc,            \* position in _process_rows
    in_rows,        \* argument rows
    in_task_id,     \* argument task_id
    dedup_key,      \* argument dedup_key
    filtered,       \* rows after the totals filter
    totals_dropped, \* local counter, second component of the return value
    unique_rows,    \* local list built by the deduplication loop
    sorted_rows,    \* first component of the return value
    process_outcome, \* how _process_rows ended: "returned", or the exception
    \* ---- validator (scripts/validate_purple_output.py, main) ----
    vpc,            \* position in main: the stage about to run, or "exited"
    fault_mode,     \* args.fault_mode
    task_query,     \* args.task_query
    finding,        \* what the latest stage found in the artifact
    stages_run,     \* the stages that have run, in order
    exit_status,    \* the process's exit status (-1: still running)
    reported,       \* the code error_exit printed ("none": no code printed)
    traceback,      \* the exception that ended the process ("none": none)
    \* ---- grading entry points (agent.py, agent_a2a.py) ----
    gpc,            \* position in _run_assess_internal / run_eval
    tasks_left,     \* tasks the for loop of run_eval has still to run
    all_results,    \* run_eval's list of per-task results
    scoring_ends,   \* how each wait for a scoring pass ended, in order
    response,       \* what the entry point gave its caller
    total_score,    \* run_eval's sum of the score_total values
    \* ---- bounded I/O retry (judge.py, _with_retries) ----
    wpc,            \* position in _with_retries
    attempt_i,      \* loop variable i of the for loop
    elapsed,        \* time.monotonic() - start
    calls,          \* how many times func has been called
    sleeps,         \* the time.sleep arguments so far, in order
    last_exc,       \* local last_exc
    deadline_hit,   \* the loop was left by the max_elapsed break
    retry_outcome,  \* how _with_retries ended: "value", or the exception
    \* ---- concurrent gradings (agent.py, _run_assess_internal) ----
    apc,            \* position of each invocation
    subdir,         \* purple_output_subdir or task_id of each invocation
    copied,         \* files each invocation's staging loop has copied
    worker,         \* each invocation's executor thread: none, running, finished
    timed_out,      \* future.result raised TimeoutError in the invocation
    reply,          \* what each invocation gave its caller
    cache,          \* the files in each /tmp/purple_output_cache/<subdir>
    disturbed,      \* the staged copy was changed under the invocation's scoring
    \* ---- _sha256_file (judge.py) ----
    hpc,            \* position in _sha256_file
    file_chunks,    \* the file's contents, chunk by chunk
    read_pos,       \* chunks the open file object has returned
    hasher,         \* the chunks fed to h so far
    read_attempt,   \* i of the for loop in _with_retries
    read_failures,  \* transient errors the file system has produced
    digest          \* what _sha256_file returned or raised

fetchVars == <<fpc, paging_mode, page_size, max_requests, total_rows, page,
               offset, all_rows, attempt, result, clock, nGets, reqLog,
               curGets, curWaits, allTransient, lastWait, delivered,
               failedAt, permSeen, permSlept, permRetried>>

scoreVars == <<spc, task_mode, files_present, missing, metaHas, row_count_actual,
               log_text, breakdown, raw, governance_applied, total, outcome,
               return_site>>

processVars == <<ppc, in_rows, in_task_id, dedup_key, filtered,
                 totals_dropped, unique_rows, sorted_rows, process_outcome>>

validateVars == <<vpc, fault_mode, task_query, finding, stages_run,
                  exit_status, reported, traceback>>

gradeVars == <<gpc, tasks_left, all_results, scoring_ends, response,
               total_score>>

retryVars == <<wpc, attempt_i, elapsed, calls, sleeps, last_exc,
               deadline_hit, retry_outcome>>

assessVars == <<apc, subdir, copied, worker, timed_out, reply, cache, disturbed>>

hashVars == <<hpc, file_chunks, read_pos, hasher, read_attempt, read_failures, digest>>

vars == <<fetchVars, scoreVars, processVars, validateVars, gradeVars,
          retryVars, assessVars, hashVars>>

\* What the steps of one component leave alone.
exceptFetch == <<scoreVars, processVars, validateVars, gradeVars, retryVars,
          assessVars, hashVars>>
exceptScore == <<fetchVars, processVars, validateVars, gradeVars, retryVars,
          assessVars, hashVars>>
exceptProcess == <<fetchVars, scoreVars, validateVars, gradeVars, retryVars,
          assessVars, hashVars>>
exceptValidate == <<fetchVars, scoreVars, processVars, gradeVars, retryVars,
          assessVars, hashVars>>
exceptGrade == <<fetchVars, scoreVars, processVars, validateVars, retryVars,
          assessVars, hashVars>>
exceptRetry == <<fetchVars, scoreVars, processVars, validateVars, gradeVars,
          assessVars, hashVars>>
exceptAssess == <<fetchVars, scoreVars, processVars, validateVars, gradeVars,
          retryVars, hashVars>>
exceptHash == <<fetchVars, scoreVars, processVars, validateVars, gradeVars,
          retryVars, assessVars>>

(***************************************************************************)
(* _fetch_with_retry                                                       *)
(***************************************************************************)
\* max_retries: int = 3
MaxRetries == 3

RECURSIVE Pow2(_)
Pow2(n) == IF n = 0 THEN 1 ELSE 2 * Pow2(n - 1)

\* backoff = 2 ** attempt
BackoffLinear(a) == 2 * a + 1
Backoff(a) == Pow2(a)

\* if attempt < max_retries
RetryAlways(a) == TRUE
MayRetry(a) == a < MaxRetries

\* return value None
None == [kind |-> "None", truthy |-> FALSE, data |-> <<>>]

\* resp.json(): a JSON object; {} is falsy, any other object is truthy and
\* result.get("data", []) is its "data" list (empty when the key is absent).
Json(truthy, rows) == [kind |-> "json", truthy |-> truthy, data |-> rows]

\* The rows of one response: the i-th row of the answer to request n.
Rows(n, k) == [i \in 1..k |-> <<n, i>>]

InitFetch ==
    /\ fpc = "idle"
    /\ paging_mode = "page"
    /\ page_size = 1
    /\ max_requests = 1
    /\ total_rows = 1
    /\ page = 1
    /\ offset = 0
    /\ all_rows = <<>>
    /\ attempt = 0
    /\ result = None
    /\ clock = 0
    /\ nGets = 0
    /\ reqLog = <<>>
    /\ curGets = 0
    /\ curWaits = <<>>
    /\ allTransient = TRUE
    /\ lastWait = 0
    /\ delivered = <<>>
    /\ failedAt = -1
    /\ permSeen = FALSE
    /\ permSlept = FALSE
    /\ permRetried = FALSE

\* _fetch_all_pages(mock_url, paging_mode, page_size, max_requests, total_rows)
\* is entered: all_rows = [], page = 1, offset = 0.
FetchAllCall ==
    /\ fpc = "idle"
    /\ \E m \in {"page", "offset", "cursor"}, ps \in 1..MaxPageSize,
          mr \in 1..MaxRequests, tr \in 1..MaxTotalRows :
          /\ paging_mode' = m
          /\ page_size' = ps
          /\ max_requests' = mr
          /\ total_rows' = tr
    /\ fpc' = "loop"
    /\ UNCHANGED <<page, offset, all_rows, attempt, result, clock, nGets,
                   reqLog, curGets, curWaits, allTransient, 
                   lastWait, delivered, failedAt, permSeen, permSlept, permRetried>>
    /\ UNCHANGED exceptFetch

\* The call self._fetch_with_retry(url, params): attempt = 0.
CallFetchWithRetry(param) ==
    /\ fpc' = "get"
    /\ attempt' = 0
    /\ reqLog' = Append(reqLog, [param |-> param, acc |-> Len(all_rows), got |-> -1])
    /\ curGets' = 0
    /\ curWaits' = <<>>
    /\ allTransient' = TRUE
    /\ lastWait' = 0

\* while len(all_rows) < total_rows and page <= max_requests
PageLoopCondLax == Len(all_rows) <= total_rows /\ page <= max_requests
PageLoopCond == Len(all_rows) < total_rows /\ page <= max_requests

\* while offset < total_rows and offset // page_size < max_requests
OffsetLoopCondLax == offset <= total_rows /\ (offset \div page_size) < max_requests
OffsetLoopCond == offset < total_rows /\ (offset \div page_size) < max_requests

PageLoop ==
    /\ fpc = "loop"
    /\ paging_mode = "page"
    /\ IF PageLoopCond
       THEN CallFetchWithRetry(page)
       ELSE /\ fpc' = "done"
            /\ UNCHANGED <<attempt, reqLog, curGets, curWaits, allTransient,
                           lastWait>>
    /\ UNCHANGED <<paging_mode, page_size, max_requests, total_rows, page,
                   offset, all_rows, result, clock, nGets, delivered,
                   failedAt, permSeen, permSlept, permRetried>>
    /\ UNCHANGED exceptFetch

OffsetLoop ==
    /\ fpc = "loop"
    /\ paging_mode = "offset"
    /\ IF OffsetLoopCond
       THEN CallFetchWithRetry(offset)
       ELSE /\ fpc' = "done"
            /\ UNCHANGED <<attempt, reqLog, curGets, curWaits, allTransient,
                           lastWait>>
    /\ UNCHANGED <<paging_mode, page_size, max_requests, total_rows, page,
                   offset, all_rows, result, clock, nGets, delivered,
                   failedAt, permSeen, permSlept, permRetried>>
    /\ UNCHANGED exceptFetch

\* else: self._log(f"ERROR: Unknown paging_mode: ..."); return all_rows
UnknownMode ==
    /\ fpc = "loop"
    /\ paging_mode \notin {"page", "offset"}
    /\ fpc' = "done"
    /\ UNCHANGED <<paging_mode, page_size, max_requests, total_rows, page,
                   offset, all_rows, attempt, result, clock, nGets, reqLog,
                   curGets, curWaits, allTransient, lastWait,
                   delivered, failedAt, permSeen, permSlept, permRetried>>
    /\ UNCHANGED exceptFetch

\* One session.get of the for loop, common part.
Sent(answer) ==
    /\ fpc = "get"
    /\ attempt <= MaxRetries
    /\ nGets' = nGets + 1
    /\ curGets' = curGets + 1
    /\ allTransient' = (allTransient /\ answer \in {"429", "500", "transport"})
    /\ permSeen' = (permSeen \/ answer = "httperror")
    /\ permRetried' = (permRetried \/ permSeen)

\* _fetch_with_retry returns v to _fetch_all_pages.
Return(v) ==
    /\ result' = v
    /\ fpc' = "body"
    /\ failedAt' = IF v = None /\ failedAt = -1 THEN nGets + 1 ELSE failedAt
    /\ UNCHANGED attempt

\* time.sleep(backoff), then the next iteration of the for loop.
SleepAndRetry ==
    /\ clock' = clock + Backoff(attempt)
    /\ curWaits' = Append(curWaits, Backoff(attempt))
    /\ lastWait' = Backoff(attempt)
    /\ attempt' = attempt + 1
    /\ UNCHANGED <<result, fpc, failedAt>>

\* resp.status_code == 200: return resp.json()
GetOk ==
    /\ Sent("200")
    /\ \E truthy \in BOOLEAN, k \in 0..(page_size + 1) :
          /\ (~truthy => k = 0)
          /\ Return(Json(truthy, Rows(Len(reqLog), k)))
          /\ delivered' = IF truthy THEN delivered \o Rows(Len(reqLog), k) ELSE delivered
    /\ lastWait' = 0
    /\ UNCHANGED <<paging_mode, page_size, max_requests, total_rows, page,
                   offset, all_rows, clock, reqLog, curWaits, permSlept>>
    /\ UNCHANGED exceptFetch

\* resp.status_code in {429, 500}: sleep and continue, or return None after
\* max_retries.
GetTransient ==
    /\ \E s \in {"429", "500"} : Sent(s)
    /\ IF MayRetry(attempt)
       THEN SleepAndRetry
       ELSE /\ Return(None)
            /\ lastWait' = 0
            /\ UNCHANGED <<clock, curWaits>>
    /\ UNCHANGED <<paging_mode, page_size, max_requests, total_rows, page,
                   offset, all_rows, reqLog, delivered, permSlept>>
    /\ UNCHANGED exceptFetch

\* except requests.RequestException: raised by session.get (a transport
\* failure, or a body that is not JSON) or by resp.raise_for_status() (an HTTP
\* error status other than 429 and 500, such as 404).
GetRaises ==
    /\ \E s \in {"transport", "httperror"} :
          /\ Sent(s)
          /\ permSlept' = (permSlept \/ (s = "httperror" /\ MayRetry(attempt)))
    /\ IF MayRetry(attempt)
       THEN SleepAndRetry
       ELSE /\ Return(None)
            /\ lastWait' = 0
            /\ UNCHANGED <<clock, curWaits>>
    /\ UNCHANGED <<paging_mode, page_size, max_requests, total_rows, page,
                   offset, all_rows, reqLog, delivered>>
    /\ UNCHANGED exceptFetch

\* A status that is neither 200 nor 429/500 and for which raise_for_status()
\* does not raise (204, 3xx): the body of the for loop ends, the next
\* iteration starts at once; after the last iteration, return None.
GetFallsThrough ==
    /\ Sent("other")
    /\ lastWait' = 0
    /\ IF attempt < MaxRetries
       THEN /\ attempt' = attempt + 1
            /\ UNCHANGED <<result, fpc, failedAt>>
       ELSE Return(None)
    /\ UNCHANGED <<paging_mode, page_size, max_requests, total_rows, page,
                   offset, all_rows, clock, reqLog, curWaits, delivered,
                   permSlept>>
    /\ UNCHANGED exceptFetch

\* all_rows.extend(data)
ExtendFront(rows, data) == data \o rows
Extend(rows, data) == rows \o data

\* The latest reqLog entry with the number of rows handed to _fetch_all_pages.
Got(n) == [reqLog EXCEPT ![Len(reqLog)].got = n]

\* if not result: break  ...  if len(data) < page_size: break  ...  page += 1
PageBody ==
    /\ fpc = "body"
    /\ paging_mode = "page"
    /\ IF ~result.truthy
       THEN /\ fpc' = "done"
            /\ UNCHANGED <<all_rows, page, reqLog>>
       ELSE /\ all_rows' = Extend(all_rows, result.data)
            /\ reqLog' = Got(Len(result.data))
            /\ IF Len(result.data) < page_size
               THEN fpc' = "done" /\ UNCHANGED page
               ELSE fpc' = "loop" /\ page' = page + 1
    /\ UNCHANGED <<paging_mode, page_size, max_requests, total_rows, offset,
                   attempt, result, clock, nGets, curGets, curWaits,
                   allTransient, lastWait, delivered, failedAt,
                   permSeen, permSlept, permRetried>>
    /\ UNCHANGED exceptFetch

\* if not result: break  ...  if len(data) == 0: break  ...  offset += len(data)
OffsetBody ==
    /\ fpc = "body"
    /\ paging_mode = "offset"
    /\ IF ~result.truthy
       THEN /\ fpc' = "done"
            /\ UNCHANGED <<all_rows, offset, reqLog>>
       ELSE /\ all_rows' = Extend(all_rows, result.data)
            /\ reqLog' = Got(Len(result.data))
            /\ IF Len(result.data) = 0
               THEN fpc' = "done" /\ UNCHANGED offset
               ELSE fpc' = "loop" /\ offset' = offset + Len(result.data)
    /\ UNCHANGED <<paging_mode, page_size, max_requests, total_rows, page,
                   attempt, result, clock, nGets, curGets, curWaits,
                   allTransient, lastWait, delivered, failedAt,
                   permSeen, permSlept, permRetried>>
    /\ UNCHANGED exceptFetch

NextFetch ==
    \/ FetchAllCall
    \/ PageLoop
    \/ OffsetLoop
    \/ UnknownMode
    \/ GetOk
    \/ GetTransient
    \/ GetRaises
    \/ GetFallsThrough
    \/ PageBody
    \/ OffsetBody

(***************************************************************************)
(* score_output (judge.py).  Scores are floats in the code; here a score   *)
(* is an integer number of 1/Scale points, and Scale is a multiple of      *)
(* every denominator the bounded inputs produce, so each division below is *)
(* exact.                                                                  *)
(***************************************************************************)
Scale == 9 * 200

Pts(n) == n * Scale

\* (num / den) * pts
Ratio(num, den, pts) == (num * pts * Scale) \div den

Max(a, b) == IF a > b THEN a ELSE b
Min(a, b) == IF a < b THEN a ELSE b
Abs(a) == IF a < 0 THEN 0 - a ELSE a

\* REQUIRED_FILES = ["data.jsonl", "metadata.json", "run.log"]
REQUIRED_FILES == {"data.jsonl", "metadata.json", "run.log"}

\* needed_meta_fields = ["task_id", "query", "row_count", "schema", "dedup_key"]
needed_meta_fields == {"task_id", "query", "row_count", "schema", "dedup_key"}

\* CORRECTNESS_GATE_THRESHOLD = 0.70, CORRECTNESS_GATE_PENALTY = 0.50, in hundredths
CORRECTNESS_GATE_THRESHOLD == 70
CORRECTNESS_GATE_PENALTY == 50

\* EXECUTION_TIME_PENALTY_THRESHOLD = 45.0
EXECUTION_TIME_PENALTY_THRESHOLD == 45

\* TASK_EFFICIENCY_BASELINES.get(task_id, 5)
TASK_EFFICIENCY_BASELINES(task_id) ==
    CASE task_id = "T1_single_page" -> 1
      [] task_id = "T2_multi_page" -> 5
      [] task_id = "T3_duplicates" -> 3
      [] task_id = "T4_rate_limit_429" -> 4
      [] task_id = "T5_server_error_500" -> 4
      [] task_id = "T6_page_drift" -> 3
      [] task_id = "T7_totals_trap" -> 8
      [] OTHER -> 5

\* REQUIRED_OBSERVABILITY_FIELDS
REQUIRED_OBSERVABILITY_FIELDS == {"task_id", "page", "request", "complete"}

Dimensions == {"correctness", "completeness", "robustness", "efficiency",
               "data_quality", "observability"}

\* breakdown = {"correctness": 0.0, ..., "observability": 0.0}
ZeroBreakdown == [d \in Dimensions |-> 0]

\* sum(breakdown.values())
SumBreakdown(b) ==
    b["correctness"] + b["completeness"] + b["robustness"] + b["efficiency"]
        + b["data_quality"] + b["observability"]

\* round(total, 1): the nearest tenth of a point, a tie going to the even tenth.
Round1(x) ==
    LET u == Scale \div 10
        q == x \div u
        r == x % u
    IN  IF 2 * r < u THEN q * u
        ELSE IF 2 * r > u THEN (q + 1) * u
        ELSE IF q % 2 = 0 THEN q * u ELSE (q + 1) * u

(***************************************************************************)
(* The inputs of score_output: the task and what the artifact's files hold. *)
(***************************************************************************)
\* task_expected["fault_injection"]["mode"]; every mode other than these
\* three takes the same branches as "none".
TaskModes == {"none", "rate_limit", "server_error", "totals_trap"}

\* What the substring tests of score_output find in run.log's lowered text.
LogText(c429, c500, retry, backoff, exponential, maxlimit, lines, long, info, warn, error, stopword, fields) ==
    [c429 |-> c429, c500 |-> c500, retry |-> retry, backoff |-> backoff,
     exponential |-> exponential, maxlimit |-> maxlimit, lines |-> lines,
     long |-> long, info |-> info, warn |-> warn, error |-> error,
     stopword |-> stopword, fields |-> fields]

NoLog == LogText(FALSE, FALSE, FALSE, FALSE, FALSE, FALSE, 1, FALSE,
                 FALSE, FALSE, FALSE, FALSE, {})

LogTexts ==
    { NoLog,
      \* "WARN: HTTP 429 received, retry after 1s", three lines
      LogText(TRUE, FALSE, TRUE, FALSE, FALSE, FALSE, 3, TRUE,
              TRUE, TRUE, FALSE, FALSE, {"page"}),
      \* 429 with "backoff", all traceable fields, a completion line
      LogText(TRUE, FALSE, TRUE, TRUE, FALSE, FALSE, 5, TRUE,
              TRUE, TRUE, TRUE, TRUE, {"task_id", "page", "request", "complete"}),
      \* one line: 500 with "retry" and a retry limit, "ERROR: Request failed"
      LogText(FALSE, TRUE, TRUE, FALSE, FALSE, TRUE, 1, TRUE,
              FALSE, TRUE, TRUE, TRUE, {"request"}) }

\* meta.get("schema"): absent or falsy (0 columns), a list of that many
\* columns, or a value that is not a list (-1).
SchemaShapes == {-1, 5, 9}

\* How many of the five query fields count as matching.
QueryMatches == {3, 5}

\* The keys of metadata.json among needed_meta_fields: all of them, all but
\* one, task_id alone, or none.
MetaKeySets ==
    {needed_meta_fields, {"task_id"}, {}}
        \cup {needed_meta_fields \ {f} : f \in needed_meta_fields}

\* meta.get("totals_handling", {}): not enabled; enabled with rows_dropped < 1;
\* enabled with rows_dropped >= 1.
TotalsHandlings == {"off", "zero", "dropped"}

\* meta.get("task_id", "")
MetaTaskIds == {"T1_single_page", "T2_multi_page"}

\* meta.get("request_count", 0) and meta.get("execution_time_seconds", 0)
RequestCounts == {0, 1, 6}
ExecTimes == {0, 60}

\* The rest of metadata.json: which REQUIRED_OBSERVABILITY_FIELDS occur in
\* str(meta).lower() besides the needed keys, and whether "stop_reason" or
\* "pagination_stats" is a key.
MetaExtras ==
    { [text |-> {}, stop |-> FALSE],
      [text |-> {"page", "request", "complete"}, stop |-> TRUE] }

\* What _validate_data_content, _check_type_consistency and
\* _check_value_ranges return, in halves (a helper that raised adds nothing,
\* like 0): no usable row; half the rows valid; clean data.  With no rows the
\* first two return 0.0 and the third 1.0.
DataChecks(rows) ==
    IF rows = 0 THEN {<<0, 0, 0>>, <<0, 0, 2>>}
    ELSE {<<0, 0, 0>>, <<1, 2, 2>>, <<2, 2, 2>>}

(***************************************************************************)
(* The dimensions, as the code computes them.                              *)
(***************************************************************************)
\* breakdown["completeness"] = (files_present / len(REQUIRED_FILES)) * 10.0
PartialFilesScore(fp) == Ratio(fp, Cardinality(REQUIRED_FILES), 10)

\* breakdown["completeness"] = (fields_present / len(needed_meta_fields)) * 15.0
CompletenessScore(has) ==
    Ratio(Cardinality(has \cap needed_meta_fields), Cardinality(needed_meta_fields), 15)

\* Row count accuracy (12 points)
RowAccuracyScore(expected_rows, actual, declared) ==
    IF expected_rows > 0
    THEN Ratio(Max(0, Min(expected_rows, expected_rows - Abs(actual - expected_rows))),
               Max(expected_rows, 1), 12)
    ELSE IF declared = actual THEN Pts(12) ELSE 0

\* Schema validation (4 points)
SchemaScore(schema) ==
    IF schema < 0 THEN 0 ELSE Ratio(Min(schema, 9), 9, 4)

\* Query matching (4 points)
QueryScore(query_matches) == Ratio(query_matches, 5, 4)

\* Deduplication check (6 points); dedup_ok: a list with >= 3 fields
DedupScore(dedup_ok, rows, unique) ==
    IF ~dedup_ok THEN 0
    ELSE IF rows > 0 THEN Ratio(unique, rows, 6) ELSE Pts(6)

\* Declared vs actual consistency (4 points)
ConsistencyScore(declared, actual) == IF declared = actual THEN Pts(4) ELSE 0

\* Totals handling check for T7_totals_trap
TotalsPenalty(mode, th) ==
    IF mode # "totals_trap" THEN 0
    ELSE IF th = "off" THEN Pts(4)
    ELSE IF th = "zero" THEN Pts(2) ELSE 0

\* breakdown["correctness"] = max(0.0, min(30.0, correctness))
CorrectnessScore(mode, expected_rows, actual, declared, schema, query_matches, dedup_ok, unique, th) ==
    Max(0, Min(Pts(30),
        RowAccuracyScore(expected_rows, actual, declared)
        + SchemaScore(schema)
        + QueryScore(query_matches)
        + DedupScore(dedup_ok, actual, unique)
        + ConsistencyScore(declared, actual)
        - TotalsPenalty(mode, th)))

\* ROBUSTNESS (15 points)
RobustnessScore(mode, log) ==
    IF mode = "rate_limit"
    THEN LET has_429 == log.c429
             has_retry == log.retry \/ log.backoff
             has_exponential == log.exponential \/ log.backoff
         IN  IF has_429 /\ has_retry
             THEN (IF has_exponential THEN Pts(15) ELSE Pts(12))
             ELSE IF has_retry THEN Pts(8) ELSE 0
    ELSE IF mode = "server_error"
    THEN LET has_500 == log.c500
             has_retry == log.retry
             has_limit == log.maxlimit
         IN  IF has_500 /\ has_retry
             THEN (IF has_limit THEN Pts(15) ELSE Pts(12))
             ELSE IF has_retry THEN Pts(8) ELSE 0
    ELSE IF log.lines >= 5 THEN Pts(15)
    ELSE IF log.lines >= 3 THEN Pts(12)
    ELSE IF log.long THEN Pts(8) ELSE 0

\* Request efficiency (12 points)
RequestScore(request_count, baseline_requests) ==
    IF request_count > 0
    THEN IF request_count <= baseline_requests THEN Pts(12)
         ELSE IF request_count - baseline_requests >= Max(baseline_requests, 1) THEN 0
         ELSE Ratio(Max(baseline_requests, 1) - (request_count - baseline_requests),
                    Max(baseline_requests, 1), 12)
    ELSE Pts(12)

\* Time penalty (3 points)
TimeScore(exec_time) ==
    IF exec_time > 0
    THEN (IF exec_time <= EXECUTION_TIME_PENALTY_THRESHOLD THEN Pts(3) ELSE 0)
    ELSE Pts(3)

\* breakdown["efficiency"] = min(15.0, efficiency)
EfficiencyScore(task_id, request_count, exec_time) ==
    Min(Pts(15), RequestScore(request_count, TASK_EFFICIENCY_BASELINES(task_id))
                 + TimeScore(exec_time))

\* breakdown["data_quality"] = min(15.0, data_quality); each helper's ratio
\* times 5, and nothing for a helper that raised.
DataQualityScore(valid, types, ranges) ==
    Min(Pts(15), Ratio(valid, 2, 5) + Ratio(types, 2, 5) + Ratio(ranges, 2, 5))

\* OBSERVABILITY (10 points)
ObservabilityScore(has, log, extra) ==
    LET in_meta == extra.text \cup (IF "task_id" \in has THEN {"task_id"} ELSE {})
        found == {f \in REQUIRED_OBSERVABILITY_FIELDS : f \in log.fields \/ f \in in_meta}
        log_levels == (IF log.info THEN 1 ELSE 0) + (IF log.warn THEN 1 ELSE 0)
                      + (IF log.error THEN 1 ELSE 0)
        stop == log.stopword \/ extra.stop
    IN  Min(Pts(10),
            Ratio(Cardinality(found), Cardinality(REQUIRED_OBSERVABILITY_FIELDS), 6)
            + Min(Pts(2), Ratio(log_levels * 67, 100, 1))
            + (IF stop THEN Pts(2) ELSE 0))

(***************************************************************************)
(* The governance gates.                                                   *)
(***************************************************************************)
\* completeness_ratio < COMPLETENESS_GATE_FULL
CompletenessGateFiresLax(b) == b["completeness"] * 100 < 80 * Pts(15)
CompletenessGateFires(b) == b["completeness"] < Pts(15)

\* correctness_ratio < CORRECTNESS_GATE_THRESHOLD
CorrectnessGateFiresInclusive(b) ==
    b["correctness"] * 100 <= CORRECTNESS_GATE_THRESHOLD * Pts(30)
CorrectnessGateFires(b) ==
    b["correctness"] * 100 < CORRECTNESS_GATE_THRESHOLD * Pts(30)

\* original * CORRECTNESS_GATE_PENALTY
Penalized(x) == (x * CORRECTNESS_GATE_PENALTY) \div 100

\* Gate 1: Completeness gate - if not 100% complete, efficiency = 0
Gate1KeepsTimePoints(b) ==
    IF CompletenessGateFires(b) THEN [b EXCEPT !["efficiency"] = Pts(3)] ELSE b
Gate1(b) ==
    IF CompletenessGateFires(b) THEN [b EXCEPT !["efficiency"] = 0] ELSE b

\* Gate 2: Correctness gate - if < 70%, efficiency and observability times 0.5
Gate2(b) ==
    IF CorrectnessGateFires(b)
    THEN [b EXCEPT !["efficiency"] = IF @ > 0 THEN Penalized(@) ELSE @,
                   !["observability"] = Penalized(@)]
    ELSE b

\* The post-pass of score_output: gate 1, then gate 2.
GovernanceGates(b) == Gate2(Gate1(b))

\* governance_applied
GovernanceApplied(b) ==
    (IF CompletenessGateFires(b) THEN <<"completeness_gate: efficiency">> ELSE <<>>)
    \o (IF CorrectnessGateFires(Gate1(b))
        THEN (IF Gate1(b)["efficiency"] > 0
              THEN <<"correctness_gate: efficiency">> ELSE <<>>)
             \o <<"correctness_gate: observability">>
        ELSE <<>>)

(***************************************************************************)
(* score_output, section by section.                                       *)
(***************************************************************************)
InitScore ==
    /\ spc = "idle"
    /\ task_mode = "none"
    /\ files_present = 0
    /\ missing = {}
    /\ metaHas = {}
    /\ row_count_actual = 0
    /\ log_text = NoLog
    /\ breakdown = ZeroBreakdown
    /\ raw = ZeroBreakdown
    /\ governance_applied = <<>>
    /\ total = 0
    /\ outcome = "none"
    /\ return_site = "none"

\* return ScoreResult(t, breakdown, errors, details)
ReturnScoreResult(site, t, b) ==
    /\ spc' = "returned"
    /\ outcome' = "ScoreResult"
    /\ return_site' = site
    /\ total' = t
    /\ breakdown' = b

\* An exception leaves score_output.
Raise(e) ==
    /\ spc' = "raised"
    /\ outcome' = e
    /\ UNCHANGED <<total, breakdown, return_site>>

\* score_output(output_dir, task_expected): if not output_dir.exists(): return
ScoreCall ==
    /\ spc = "idle"
    /\ \E mode \in TaskModes : task_mode' = mode
    /\ \E exists \in BOOLEAN :
          IF ~exists
          THEN ReturnScoreResult("missing_dir", 0, ZeroBreakdown)
          ELSE /\ spc' = "files"
               /\ UNCHANGED <<outcome, total, breakdown, return_site>>
    /\ UNCHANGED <<files_present, missing, metaHas, row_count_actual, log_text, raw,
                   governance_applied>>
    /\ UNCHANGED exceptScore

\* Check required files
CheckFiles ==
    /\ spc = "files"
    /\ \E present \in SUBSET REQUIRED_FILES :
          /\ files_present' = Cardinality(present)
          /\ missing' = REQUIRED_FILES \ present
          /\ IF present # REQUIRED_FILES
             THEN ReturnScoreResult("missing_files",
                      PartialFilesScore(Cardinality(present)),
                      [breakdown EXCEPT !["completeness"] =
                           PartialFilesScore(Cardinality(present))])
             ELSE /\ spc' = "meta"
                  /\ UNCHANGED <<outcome, total, breakdown, return_site>>
    /\ UNCHANGED <<task_mode, metaHas, row_count_actual, log_text, raw,
                   governance_applied>>
    /\ UNCHANGED exceptScore

\* meta = _load_json(meta_path), except json.JSONDecodeError, except OSError
\* (TimeoutError, raised when the I/O retries run out, is an OSError)
LoadMeta ==
    /\ spc = "meta"
    /\ \E r \in {"ok", "JSONDecodeError", "OSError", "TimeoutError", "UnicodeDecodeError"} :
          CASE r = "ok" ->
                  /\ \E has \in MetaKeySets : metaHas' = has
                  /\ spc' = "completeness"
                  /\ UNCHANGED <<outcome, total, breakdown, return_site>>
            [] r = "JSONDecodeError" ->
                  /\ ReturnScoreResult("bad_metadata", 0, breakdown)
                  /\ UNCHANGED metaHas
            [] r \in {"OSError", "TimeoutError"} ->
                  /\ ReturnScoreResult("unreadable_metadata", 0, breakdown)
                  /\ UNCHANGED metaHas
            [] OTHER ->
                  /\ Raise(r)
                  /\ UNCHANGED metaHas
    /\ UNCHANGED <<task_mode, files_present, missing, row_count_actual, log_text, raw,
                   governance_applied>>
    /\ UNCHANGED exceptScore

\* COMPLETENESS (15 points), then row_count_actual = _count_jsonl_rows(data_path)
Completeness ==
    /\ spc = "completeness"
    /\ \E io \in {"ok", "OSError"} :
          IF io = "ok"
          THEN /\ \E n \in 0..MaxRows : row_count_actual' = n
               /\ breakdown' = [breakdown EXCEPT !["completeness"] = CompletenessScore(metaHas)]
               /\ spc' = "correctness"
               /\ UNCHANGED <<outcome, total, return_site>>
          ELSE /\ Raise(io)
               /\ UNCHANGED row_count_actual
    /\ UNCHANGED <<task_mode, files_present, missing, metaHas, log_text, raw,
                   governance_applied>>
    /\ UNCHANGED exceptScore

\* CORRECTNESS (30 points)
Correctness ==
    /\ spc = "correctness"
    /\ \E expected_rows \in 0..MaxRows,
          declared \in IF "row_count" \in metaHas THEN 0..MaxRows ELSE {-1},
          schema \in IF "schema" \in metaHas THEN SchemaShapes ELSE {0},
          query_matches \in QueryMatches,
          dedup \in IF "dedup_key" \in metaHas
                    THEN {"invalid", "ok", "OSError", "JSONDecodeError"} ELSE {"invalid"},
          unique \in IF row_count_actual = 0 THEN {0} ELSE 1..row_count_actual,
          th \in TotalsHandlings :
          IF dedup \in {"OSError", "JSONDecodeError"}
          THEN Raise(dedup)
          ELSE /\ breakdown' = [breakdown EXCEPT !["correctness"] =
                      CorrectnessScore(task_mode, expected_rows, row_count_actual,
                                       declared, schema, query_matches,
                                       dedup = "ok", unique, th)]
               /\ spc' = "robustness"
               /\ UNCHANGED <<outcome, total, return_site>>
    /\ UNCHANGED <<task_mode, files_present, missing, metaHas, row_count_actual, log_text,
                   raw, governance_applied>>
    /\ UNCHANGED exceptScore

\* ROBUSTNESS (15 points): log_text = _read_text_retry(log_path, ...).lower()
Robustness ==
    /\ spc = "robustness"
    /\ \E io \in {"ok", "OSError"} :
          IF io = "ok"
          THEN /\ \E log \in LogTexts :
                    /\ log_text' = log
                    /\ breakdown' = [breakdown EXCEPT !["robustness"] =
                                         RobustnessScore(task_mode, log)]
               /\ spc' = "efficiency"
               /\ UNCHANGED <<outcome, total, return_site>>
          ELSE /\ Raise(io)
               /\ UNCHANGED log_text
    /\ UNCHANGED <<task_mode, files_present, missing, metaHas, row_count_actual, raw,
                   governance_applied>>
    /\ UNCHANGED exceptScore

\* EFFICIENCY (15 points)
Efficiency ==
    /\ spc = "efficiency"
    /\ \E task_id \in IF "task_id" \in metaHas THEN MetaTaskIds ELSE {""},
          request_count \in RequestCounts,
          exec_time \in ExecTimes :
          breakdown' = [breakdown EXCEPT !["efficiency"] =
                            EfficiencyScore(task_id, request_count, exec_time)]
    /\ spc' = "data_quality"
    /\ UNCHANGED <<task_mode, files_present, missing, metaHas, row_count_actual, log_text,
                   raw, governance_applied, total, outcome, return_site>>
    /\ UNCHANGED exceptScore

\* DATA QUALITY (15 points): each helper returns a ratio, or raises and is
\* caught by `except Exception`.
DataQuality ==
    /\ spc = "data_quality"
    /\ \E c \in DataChecks(row_count_actual) :
          breakdown' = [breakdown EXCEPT !["data_quality"] =
                            DataQualityScore(c[1], c[2], c[3])]
    /\ spc' = "observability"
    /\ UNCHANGED <<task_mode, files_present, missing, metaHas, row_count_actual, log_text,
                   raw, governance_applied, total, outcome, return_site>>
    /\ UNCHANGED exceptScore

\* OBSERVABILITY (10 points), then details["data_sha256"] = _sha256_file(...)
Observability ==
    /\ spc = "observability"
    /\ \E io \in {"ok", "OSError"} :
          IF io = "ok"
          THEN /\ \E extra \in MetaExtras :
                    breakdown' = [breakdown EXCEPT !["observability"] =
                                      ObservabilityScore(metaHas, log_text, extra)]
               /\ spc' = "gates"
               /\ UNCHANGED <<outcome, total, return_site>>
          ELSE Raise(io)
    /\ UNCHANGED <<task_mode, files_present, missing, metaHas, row_count_actual, log_text,
                   raw, governance_applied>>
    /\ UNCHANGED exceptScore

\* GOVERNANCE GATES, total = sum(breakdown.values()),
\* return ScoreResult(total=round(total, 1), ...)
Govern ==
    /\ spc = "gates"
    /\ raw' = breakdown
    /\ governance_applied' = GovernanceApplied(breakdown)
    /\ ReturnScoreResult("scored", Round1(SumBreakdown(GovernanceGates(breakdown))),
                         GovernanceGates(breakdown))
    /\ UNCHANGED <<task_mode, files_present, missing, metaHas, row_count_actual, log_text>>
    /\ UNCHANGED exceptScore

NextScore ==
    \/ ScoreCall
    \/ CheckFiles
    \/ LoadMeta
    \/ Completeness
    \/ Correctness
    \/ Robustness
    \/ Efficiency
    \/ DataQuality
    \/ Observability
    \/ Govern

(***************************************************************************)
(* _is_totals_row and _process_rows (purple_agent.py).  A row is a dict;   *)
(* here it is a record over the fields below, and a field the dict lacks   *)
(* holds PyNone, which is what row.get(k) returns for it.  Field values    *)
(* are written as strings; Rank gives their order under Python's <.        *)
(***************************************************************************)
PyNone == "None"

Row(isTotal, partner, hs, year, value) ==
    [isTotal |-> isTotal, partner |-> partner, hs |-> hs, year |-> year,
     value |-> value]

\* The rows a response may carry: the totals row, rows meeting one or two of
\* its three conditions, plain rows, rows that agree on the key fields and
\* differ elsewhere, and a row without "year".
InputRows ==
    { Row(TRUE,  "WLD", "TOTAL", "2020", "1"),
      Row(TRUE,  "WLD", "01",    "2020", "1"),
      Row(TRUE,  "USA", "TOTAL", "2020", "1"),
      Row(FALSE, "WLD", "TOTAL", "2021", "1"),
      Row(TRUE,  "USA", "01",    "2020", "1"),
      Row(FALSE, "USA", "01",    "2021", "1"),
      Row(FALSE, "USA", "01",    "2021", "2"),
      Row(FALSE, "USA", "01",    PyNone, "1") }

RECURSIVE SeqsUpTo(_, _)
SeqsUpTo(S, n) ==
    IF n = 0 THEN {<<>>}
    ELSE LET shorter == SeqsUpTo(S, n - 1)
         IN  shorter \cup {Append(q, x) : q \in shorter, x \in S}

\* task_id values: the totals-trap task and one other task.
TaskIds == {"T7_totals_trap", "T1_single_page"}

\* dedup_key values: lists of field names.
DedupKeys == {<<"year">>, <<"year", "partner", "hs">>, <<"partner", "year">>}

\* row.get("isTotal") == True and row.get("partner") == "WLD"
\* and row.get("hs") == "TOTAL"
IsTotalsRowAnyTwo(row) ==
    \/ (row.isTotal = TRUE /\ row.partner = "WLD")
    \/ (row.isTotal = TRUE /\ row.hs = "TOTAL")
    \/ (row.partner = "WLD" /\ row.hs = "TOTAL")
IsTotalsRow(row) ==
    row.isTotal = TRUE /\ row.partner = "WLD" /\ row.hs = "TOTAL"

\* for row in rows: if self._is_totals_row(row): totals_dropped += 1
\*                  else: filtered.append(row)
RECURSIVE FilterTotals(_)
FilterTotals(rs) ==
    IF rs = <<>> THEN [filtered |-> <<>>, totals_dropped |-> 0]
    ELSE LET rest == FilterTotals(Tail(rs))
         IN  IF IsTotalsRow(Head(rs))
             THEN [rest EXCEPT !.totals_dropped = @ + 1]
             ELSE [rest EXCEPT !.filtered = <<Head(rs)>> \o @]

\* key = tuple(row.get(k) for k in dedup_key)
KeyOf(row, key) == [i \in 1..Len(key) |-> row[key[i]]]

\* for row in rows: if key not in seen: seen.add(key); unique_rows.append(row)
RECURSIVE DedupLoop(_, _, _, _)
DedupLoop(rs, key, seen, unique) ==
    IF rs = <<>> THEN unique
    ELSE LET k == KeyOf(Head(rs), key)
         IN  IF k \notin seen
             THEN DedupLoop(Tail(rs), key, seen \cup {k}, Append(unique, Head(rs)))
             ELSE DedupLoop(Tail(rs), key, seen, unique)

\* Drops a row only when the row kept just before it has the same key.
RECURSIVE DedupAdjacent(_, _)
DedupAdjacent(rs, key) ==
    IF Len(rs) < 2 THEN rs
    ELSE LET rest == DedupAdjacent(Tail(rs), key)
         IN  IF KeyOf(Head(rs), key) = KeyOf(Head(rest), key)
             THEN <<Head(rs)>> \o Tail(rest)
             ELSE <<Head(rs)>> \o rest

RECURSIVE DedupKeepLast(_, _)
DedupKeepLast(rs, key) ==
    IF rs = <<>> THEN <<>>
    ELSE LET rest == DedupKeepLast(Tail(rs), key)
         IN  IF \E i \in 1..Len(rest) : KeyOf(rest[i], key) = KeyOf(Head(rs), key)
             THEN rest
             ELSE <<Head(rs)>> \o rest
Dedup(rs, key) == DedupLoop(rs, key, {}, <<>>)

\* The order of the field values under <: strings by code point.
Rank(v) ==
    CASE v = "01" -> 1
      [] v = "1" -> 2
      [] v = "2" -> 3
      [] v = "2020" -> 4
      [] v = "2021" -> 5
      [] v = "TOTAL" -> 6
      [] v = "USA" -> 7
      [] v = "WLD" -> 8

\* Tuple comparison: the first position where the tuples differ decides
\* (0: the tuples are equal).
FirstDiff(a, b) ==
    IF \A i \in 1..Len(a) : a[i] = b[i] THEN 0
    ELSE CHOOSE i \in 1..Len(a) :
            a[i] # b[i] /\ \A j \in 1..(i - 1) : a[j] = b[j]

\* a < b raises TypeError when the deciding values are None and a string.
Incomparable(a, b) ==
    FirstDiff(a, b) # 0 /\
        (a[FirstDiff(a, b)] = PyNone \/ b[FirstDiff(a, b)] = PyNone)

TupleLess(a, b) ==
    FirstDiff(a, b) # 0 /\ Rank(a[FirstDiff(a, b)]) < Rank(b[FirstDiff(a, b)])

\* sorted() raises TypeError exactly when two of the keys it has to order
\* are not comparable.
SortRaises(rs, key) ==
    \E i, j \in 1..Len(rs) : Incomparable(KeyOf(rs[i], key), KeyOf(rs[j], key))

\* Insertion of r after every element that is not greater: a stable sort.
RECURSIVE Insert(_, _, _)
Insert(r, sorted, key) ==
    IF sorted = <<>> THEN <<r>>
    ELSE IF TupleLess(KeyOf(r, key), KeyOf(Head(sorted), key))
         THEN <<r>> \o sorted
         ELSE <<Head(sorted)>> \o Insert(r, Tail(sorted), key)

RECURSIVE SortLoop(_, _, _)
SortLoop(rs, sorted, key) ==
    IF rs = <<>> THEN sorted
    ELSE SortLoop(Tail(rs), Insert(Head(rs), sorted, key), key)

Reversed(rs, key) == [i \in 1..Len(rs) |-> rs[Len(rs) + 1 - i]]
Unsorted(rs, key) == rs
\* sorted(unique_rows, key=lambda r: tuple(r.get(k) for k in dedup_key))
Sorted(rs, key) == SortLoop(rs, <<>>, key)

\* rows after the totals filter: only T7_totals_trap filters.
AfterTotals(rs, task) ==
    IF task = "T7_totals_trap" THEN FilterTotals(rs)
    ELSE [filtered |-> rs, totals_dropped |-> 0]

\* _process_rows(rows, task_id, dedup_key) as a function of its arguments.
ProcessRows(rs, task, key) ==
    LET t == AfterTotals(rs, task)
        u == Dedup(t.filtered, key)
    IN  IF SortRaises(u, key)
        THEN [outcome |-> "TypeError", rows |-> <<>>, totals_dropped |-> 0]
        ELSE [outcome |-> "returned", rows |-> Sorted(u, key),
              totals_dropped |-> t.totals_dropped]

InitProcess ==
    /\ ppc = "idle"
    /\ in_rows = <<>>
    /\ in_task_id = "T1_single_page"
    /\ dedup_key = <<"year">>
    /\ filtered = <<>>
    /\ totals_dropped = 0
    /\ unique_rows = <<>>
    /\ sorted_rows = <<>>
    /\ process_outcome = "none"

\* _process_rows(rows, task_id, dedup_key) is entered: totals_dropped = 0.
ProcessCall ==
    /\ ppc = "idle"
    /\ \E rs \in SeqsUpTo(InputRows, MaxInputRows), t \in TaskIds,
          k \in DedupKeys :
          /\ in_rows' = rs
          /\ in_task_id' = t
          /\ dedup_key' = k
    /\ ppc' = "totals"
    /\ UNCHANGED <<filtered, totals_dropped, unique_rows, sorted_rows,
                   process_outcome>>
    /\ UNCHANGED exceptProcess

\* if task_id == "T7_totals_trap": ... rows = filtered
TotalsStep ==
    /\ ppc = "totals"
    /\ filtered' = AfterTotals(in_rows, in_task_id).filtered
    /\ totals_dropped' = AfterTotals(in_rows, in_task_id).totals_dropped
    /\ ppc' = "dedup"
    /\ UNCHANGED <<in_rows, in_task_id, dedup_key, unique_rows, sorted_rows,
                   process_outcome>>
    /\ UNCHANGED exceptProcess

\* Deduplicate by dedup_key
DedupStep ==
    /\ ppc = "dedup"
    /\ unique_rows' = Dedup(filtered, dedup_key)
    /\ ppc' = "sort"
    /\ UNCHANGED <<in_rows, in_task_id, dedup_key, filtered, totals_dropped,
                   sorted_rows, process_outcome>>
    /\ UNCHANGED exceptProcess

\* sorted_rows = sorted(...); return sorted_rows, totals_dropped
SortStep ==
    /\ ppc = "sort"
    /\ IF SortRaises(unique_rows, dedup_key)
       THEN /\ process_outcome' = "TypeError"
            /\ UNCHANGED sorted_rows
       ELSE /\ process_outcome' = "returned"
            /\ sorted_rows' = Sorted(unique_rows, dedup_key)
    /\ ppc' = "done"
    /\ UNCHANGED <<in_rows, in_task_id, dedup_key, filtered, totals_dropped,
                   unique_rows>>
    /\ UNCHANGED exceptProcess

NextProcess ==
    \/ ProcessCall
    \/ TotalsStep
    \/ DedupStep
    \/ SortStep

(***************************************************************************)
(* scripts/validate_purple_output.py: main() runs the validation stages in *)
(* sequence.  What a stage finds in the artifact is read when the stage    *)
(* runs.  error_exit(code, message) prints "[code] message" and calls      *)
(* sys.exit(1); an exception no stage catches ends the process with a      *)
(* traceback and exit status 1, and no code is printed.                    *)
(***************************************************************************)
\* --fault-mode: the modes with an entry in LOG_EVIDENCE, and "none" (the
\* other choices have no entry and take the same branches as "none").
FaultModes == {"none", "rate_limit", "server_error", "totals_trap"}

\* --task-query: not given, not JSON, a JSON object with the five keys.
TaskQueries == {"absent", "invalid_json", "object"}

\* The stages of main(), in program order, for the given arguments.
StageOrder(fm, tq) ==
    <<"directory", "files", "metadata", "records", "row_count", "schema">>
    \o (IF tq # "absent" THEN <<"query">> ELSE <<>>)
    \o <<"dedup">>
    \o (IF fm = "totals_trap" THEN <<"totals">> ELSE <<>>)
    \o <<"log">>

\* The code each stage passes to error_exit.
StageCode(stage) ==
    CASE stage = "directory" -> "E001"
      [] stage = "files" -> "E002"
      [] stage = "metadata" -> "E003"
      [] stage = "records" -> "E003"
      [] stage = "row_count" -> "E004"
      [] stage = "schema" -> "E005"
      [] stage = "query" -> "E006"
      [] stage = "dedup" -> "E007"
      [] stage = "totals" -> "E007"
      [] stage = "log" -> "E008"

\* Results of a stage: it passes, calls error_exit, or raises.
Pass == [kind |-> "pass", code |-> "none", exc |-> "none"]
ErrorExit(code) == [kind |-> "error_exit", code |-> code, exc |-> "none"]
Uncaught(exc) == [kind |-> "uncaught", code |-> "none", exc |-> exc]

\* validate_directory_exists
validate_directory_exists(path) ==
    IF path = "missing" THEN ErrorExit("E001")
    ELSE IF path = "file" THEN ErrorExit("E001")
    ELSE Pass

\* validate_required_files: existing is the set of files in output_dir.
validate_required_files_data_only(existing) ==
    IF "data.jsonl" \notin existing THEN ErrorExit("E002") ELSE Pass
validate_required_files(existing) ==
    IF "data.jsonl" \notin existing THEN ErrorExit("E002")
    ELSE IF "metadata.json" \notin existing THEN ErrorExit("E002")
    ELSE IF "run.log" \notin existing THEN ErrorExit("E002")
    ELSE Pass

\* load_metadata, then metadata.get("task_id") != task_id in main().
\* json.load accepts any JSON value; .get exists on an object only.
MetadataShapes ==
    {"invalid_json", "not_utf8", "not_object", "task_id_mismatch", "ok"}

load_metadata(shape) ==
    IF shape = "invalid_json" THEN ErrorExit("E003")
    ELSE IF shape = "not_utf8" THEN ErrorExit("E003")
    ELSE IF shape = "not_object" THEN Uncaught("AttributeError")
    ELSE IF shape = "task_id_mismatch" THEN ErrorExit("E003")
    ELSE Pass

\* load_jsonl_records, then validate_record_fields on every record.
\* "not_object": a line holding a JSON number, on which `field not in record`
\* raises TypeError.
RecordShapes ==
    {"invalid_json", "not_utf8", "not_object", "missing_field", "wrong_type",
     "negative", "bad_flow", "ok"}

load_records(shape) ==
    IF shape \in {"invalid_json", "not_utf8"} THEN ErrorExit("E003")
    ELSE IF shape = "not_object" THEN Uncaught("TypeError")
    ELSE IF shape \in {"missing_field", "wrong_type", "negative", "bad_flow"}
         THEN ErrorExit("E003")
    ELSE Pass

\* validate_row_count
RowCountShapes == {"absent", "not_int", "mismatch", "ok"}
validate_row_count(shape) ==
    IF shape = "ok" THEN Pass ELSE ErrorExit("E004")

\* validate_schema
SchemaFindings == {"absent", "not_list", "too_small", "missing_mandatory", "ok"}
validate_schema(shape) ==
    IF shape = "ok" THEN Pass ELSE ErrorExit("E005")

\* if args.task_query: json.loads(args.task_query); validate_query(...)
QueryShapes == {"absent", "not_object", "missing_keys", "mismatch", "ok"}
validate_query(tq, shape) ==
    IF tq = "invalid_json" THEN ErrorExit("E006")
    ELSE IF shape = "ok" THEN Pass ELSE ErrorExit("E006")

\* validate_dedup_key, then validate_no_duplicates
DedupShapes ==
    {"absent", "not_list", "too_small", "missing_required", "duplicates", "ok"}
validate_dedup(shape) ==
    IF shape = "ok" THEN Pass ELSE ErrorExit("E007")

\* validate_no_totals_rows
validate_no_totals_rows(has_totals_row) ==
    IF has_totals_row THEN ErrorExit("E007") ELSE Pass

\* validate_log_evidence: the log is UTF-8, has >= 10 characters, holds the
\* required pattern and one of the optional patterns of LOG_EVIDENCE.
LogShapes == {"not_utf8", "too_short", "no_required", "no_optional", "ok"}
validate_log_evidence(fm, shape) ==
    IF shape = "not_utf8" THEN ErrorExit("E008")
    ELSE IF shape = "too_short" THEN ErrorExit("E008")
    ELSE IF fm \in {"rate_limit", "server_error", "totals_trap"}
            /\ shape = "no_required" THEN ErrorExit("E008")
    ELSE IF fm \in {"rate_limit", "server_error"} /\ shape = "no_optional"
         THEN ErrorExit("E008")
    ELSE Pass

InitValidate ==
    /\ vpc = "idle"
    /\ fault_mode = "none"
    /\ task_query = "absent"
    /\ finding = "none"
    /\ stages_run = <<>>
    /\ exit_status = -1
    /\ reported = "none"
    /\ traceback = "none"

\* The stage that follows `stage` in main() ("success" after the last one).
NextStage(stage) ==
    LET order == StageOrder(fault_mode, task_query)
        i == CHOOSE n \in 1..Len(order) : order[n] = stage
    IN  IF i = Len(order) THEN "success" ELSE order[i + 1]

\* One stage of main() ran on what it found and gave result r: the process
\* exits with the code, dies of the exception, goes on to the next stage,
\* or, after the last stage, prints the success lines and calls sys.exit(0).
StageDone(stage, found, r) ==
    /\ finding' = found
    /\ stages_run' = Append(stages_run, stage)
    /\ reported' = r.code
    /\ traceback' = r.exc
    /\ IF r.kind # "pass"
       THEN vpc' = "exited" /\ exit_status' = 1
       ELSE IF NextStage(stage) = "success"
            THEN vpc' = "exited" /\ exit_status' = 0
            ELSE vpc' = NextStage(stage) /\ UNCHANGED exit_status
    /\ UNCHANGED <<fault_mode, task_query>>
    /\ UNCHANGED exceptValidate

\* main(): parse_args
ValidateMain ==
    /\ vpc = "idle"
    /\ \E fm \in FaultModes, tq \in TaskQueries :
          fault_mode' = fm /\ task_query' = tq
    /\ vpc' = "directory"
    /\ UNCHANGED <<finding, stages_run, exit_status, reported, traceback>>
    /\ UNCHANGED exceptValidate

ValidateDirectoryExists ==
    /\ vpc = "directory"
    /\ \E path \in {"missing", "file", "dir"} :
          StageDone("directory", path, validate_directory_exists(path))

ValidateRequiredFiles ==
    /\ vpc = "files"
    /\ \E existing \in SUBSET REQUIRED_FILES :
          StageDone("files",
                    IF existing = REQUIRED_FILES THEN "all" ELSE "some",
                    validate_required_files(existing))

LoadMetadata ==
    /\ vpc = "metadata"
    /\ \E shape \in MetadataShapes :
          StageDone("metadata", shape, load_metadata(shape))

LoadRecords ==
    /\ vpc = "records"
    /\ \E shape \in RecordShapes :
          StageDone("records", shape, load_records(shape))

ValidateRowCount ==
    /\ vpc = "row_count"
    /\ \E shape \in RowCountShapes :
          StageDone("row_count", shape, validate_row_count(shape))

ValidateSchema ==
    /\ vpc = "schema"
    /\ \E shape \in SchemaFindings :
          StageDone("schema", shape, validate_schema(shape))

ValidateQuery ==
    /\ vpc = "query"
    /\ \E shape \in QueryShapes :
          StageDone("query", shape, validate_query(task_query, shape))

ValidateDedup ==
    /\ vpc = "dedup"
    /\ \E shape \in DedupShapes :
          StageDone("dedup", shape, validate_dedup(shape))

ValidateNoTotalsRows ==
    /\ vpc = "totals"
    /\ \E has_totals_row \in BOOLEAN :
          StageDone("totals", IF has_totals_row THEN "totals_row" ELSE "ok",
                    validate_no_totals_rows(has_totals_row))

ValidateLogEvidence ==
    /\ vpc = "log"
    /\ \E shape \in LogShapes :
          StageDone("log", shape, validate_log_evidence(fault_mode, shape))

NextValidate ==
    \/ ValidateMain
    \/ ValidateDirectoryExists
    \/ ValidateRequiredFiles
    \/ LoadMetadata
    \/ LoadRecords
    \/ ValidateRowCount
    \/ ValidateSchema
    \/ ValidateQuery
    \/ ValidateDedup
    \/ ValidateNoTotalsRows
    \/ ValidateLogEvidence

(***************************************************************************)
(* The grading entry points: _run_assess_internal (agent.py) and           *)
(* GreenComtradeBenchJudge.run_eval (agent_a2a.py).  Both run score_output *)
(* in a worker thread and wait for it with future.result(timeout=          *)
(* SCORE_TIMEOUT); whether the scoring pass finishes in time is not under  *)
(* the entry point's control.                                              *)
(***************************************************************************)
\* The totals a scoring pass may return.
ScoreTotals == {0, 55}

\* How the wait for the scoring pass ends.
ScoringEnds == {"result", "timeout", "raised"}

\* What _run_assess_internal gives its caller: the result dict, or an
\* HTTPException, or the exception score_output raised.
AssessResult(t) ==
    [kind |-> "dict", status_code |-> 200, has_score_total |-> TRUE,
     score_total |-> t, error |-> "none"]
HTTPException(status, detail) ==
    [kind |-> "HTTPException", status_code |-> status,
     has_score_total |-> FALSE, score_total |-> 0, error |-> detail]
Propagated(exc) ==
    [kind |-> "exception", status_code |-> 500, has_score_total |-> FALSE,
     score_total |-> 0, error |-> exc]
NoResponse ==
    [kind |-> "none", status_code |-> 0, has_score_total |-> FALSE,
     score_total |-> 0, error |-> "none"]

\* One element of run_eval's all_results.
Scored(t) == [has_score_total |-> TRUE, score_total |-> t, error |-> "none"]
Failed(msg) == [has_score_total |-> TRUE, score_total |-> 0, error |-> msg]

\* except Exception as e in run_eval's scoring block: what it records when
\* future.result raised.
OnScoreException(how) == Failed("Failed to score output")

\* except concurrent.futures.TimeoutError in _run_assess_internal
OnAssessTimeout == HTTPException(504, "Scoring timed out")

InitGrade ==
    /\ gpc = "idle"
    /\ tasks_left = 0
    /\ all_results = <<>>
    /\ scoring_ends = <<>>
    /\ response = NoResponse
    /\ total_score = 0

\* _run_assess_internal(task_id, purple_output_subdir) is called.
AssessCall ==
    /\ gpc = "idle"
    /\ \E known \in BOOLEAN :
          IF known
          THEN gpc' = "assess_configure" /\ UNCHANGED response
          ELSE gpc' = "done" /\ response' = HTTPException(404, "Unknown task_id")
    /\ UNCHANGED <<tasks_left, all_results, scoring_ends, total_score>>
    /\ UNCHANGED exceptGrade

\* requests.post(f"{MOCK_URL}/configure", ...), then the staging copy
AssessPrepare ==
    /\ gpc = "assess_configure"
    /\ \E r \in {"ok", "configure_failed", "stage_failed"} :
          IF r = "ok"
          THEN gpc' = "assess_score" /\ UNCHANGED response
          ELSE /\ gpc' = "done"
               /\ response' = HTTPException(500,
                     IF r = "configure_failed"
                     THEN "Failed to configure mock service"
                     ELSE "Failed to stage purple outputs for scoring")
    /\ UNCHANGED <<tasks_left, all_results, scoring_ends, total_score>>
    /\ UNCHANGED exceptGrade

\* result = future.result(timeout=SCORE_TIMEOUT)
AssessScore ==
    /\ gpc = "assess_score"
    /\ \E how \in ScoringEnds, t \in ScoreTotals :
          /\ (how # "result" => t = 0)
          /\ scoring_ends' = Append(scoring_ends, how)
          /\ response' = CASE how = "result" -> AssessResult(t)
                           [] how = "timeout" -> OnAssessTimeout
                           [] how = "raised" -> Propagated("exception in score_output")
    /\ gpc' = "done"
    /\ UNCHANGED <<tasks_left, all_results, total_score>>
    /\ UNCHANGED exceptGrade

\* run_eval(request, updater) is called: tasks = config.get("tasks", [])
RunEvalCall ==
    /\ gpc = "idle"
    /\ \E n \in 0..MaxTasks, has_purple \in BOOLEAN :
          /\ tasks_left' = n
          /\ IF has_purple
             THEN gpc' = "eval_loop" /\ UNCHANGED response
             ELSE gpc' = "done" /\ response' = Propagated("ValueError")
    /\ UNCHANGED <<all_results, scoring_ends, total_score>>
    /\ UNCHANGED exceptGrade

\* One task of the for loop fails before scoring: unknown task, the mock
\* service cannot be configured, or the purple agent cannot be called.
EvalTaskNotScored ==
    /\ gpc = "eval_loop"
    /\ tasks_left > 0
    /\ \E msg \in {"Unknown task_id", "Failed to configure mock service",
                   "Failed to call purple agent"} :
          all_results' = Append(all_results, Failed(msg))
    /\ scoring_ends' = Append(scoring_ends, "none")
    /\ tasks_left' = tasks_left - 1
    /\ UNCHANGED <<gpc, response, total_score>>
    /\ UNCHANGED exceptGrade

\* One task of the for loop reaches the scoring block: copytree, then
\* result = future.result(timeout=self.score_timeout), all inside
\* try ... except Exception.
EvalTaskScored ==
    /\ gpc = "eval_loop"
    /\ tasks_left > 0
    /\ \E how \in ScoringEnds \cup {"copy_failed"}, t \in ScoreTotals :
          /\ (how # "result" => t = 0)
          /\ scoring_ends' = Append(scoring_ends, how)
          /\ all_results' = Append(all_results,
                 IF how = "result" THEN Scored(t) ELSE OnScoreException(how))
    /\ tasks_left' = tasks_left - 1
    /\ UNCHANGED <<gpc, response, total_score>>
    /\ UNCHANGED exceptGrade

RECURSIVE SumScoreTotals(_)
SumScoreTotals(rs) ==
    IF rs = <<>> THEN 0
    ELSE (IF Head(rs).has_score_total THEN Head(rs).score_total ELSE 0)
         + SumScoreTotals(Tail(rs))

\* total_score = sum(r.get("score_total", 0.0) for r in all_results); the
\* results go out as the "Result" artifact.
EvalSummary ==
    /\ gpc = "eval_loop"
    /\ tasks_left = 0
    /\ total_score' = SumScoreTotals(all_results)
    /\ response' = [kind |-> "artifact", status_code |-> 200,
                    has_score_total |-> FALSE, score_total |-> 0,
                    error |-> "none"]
    /\ gpc' = "done"
    /\ UNCHANGED <<tasks_left, all_results, scoring_ends>>
    /\ UNCHANGED exceptGrade

NextGrade ==
    \/ AssessCall
    \/ AssessPrepare
    \/ AssessScore
    \/ RunEvalCall
    \/ EvalTaskNotScored
    \/ EvalTaskScored
    \/ EvalSummary

(***************************************************************************)
(* _with_retries (judge.py; agent.py has the same function).  Time is in   *)
(* units of base_sleep (0.05 s).  The wrapped func takes as long as it     *)
(* takes; time.monotonic() advances by that and by every time.sleep.       *)
(***************************************************************************)
\* attempts: int = 10
Attempts == 10
\* base_sleep: float = 0.05
BaseSleep == 1
\* max_sleep: float = 0.5
MaxSleep == 10
\* max_elapsed: float = 5.0
MaxElapsed == 100

\* How long one call of func may take: no time, or 1.5 s.
FuncDurations == {0, 30}

\* min(base_sleep * (2**i), max_sleep)
UncappedSleep(n) == BaseSleep * Pow2(n)
CappedSleep(n) == Min(BaseSleep * Pow2(n), MaxSleep)

InitRetry ==
    /\ wpc = "idle"
    /\ attempt_i = 0
    /\ elapsed = 0
    /\ calls = 0
    /\ sleeps = <<>>
    /\ last_exc = "none"
    /\ deadline_hit = FALSE
    /\ retry_outcome = "none"

\* _with_retries(func) is called: last_exc = None, start = time.monotonic()
WithRetriesCall ==
    /\ wpc = "idle"
    /\ wpc' = "try"
    /\ UNCHANGED <<attempt_i, elapsed, calls, sleeps, last_exc, deadline_hit,
                   retry_outcome>>
    /\ UNCHANGED exceptRetry

\* return func()
FuncReturns ==
    /\ wpc = "try"
    /\ attempt_i < Attempts
    /\ \E d \in FuncDurations : elapsed' = elapsed + d
    /\ calls' = calls + 1
    /\ retry_outcome' = "value"
    /\ wpc' = "done"
    /\ UNCHANGED <<attempt_i, sleeps, last_exc, deadline_hit>>
    /\ UNCHANGED exceptRetry

\* except OSError as e, with e.errno in _RETRY_ERRNOS: break when the
\* deadline has passed, otherwise sleep and continue; when the for loop is
\* over, raise TimeoutError("I/O retry deadline exceeded").
FuncRaisesTransient ==
    /\ wpc = "try"
    /\ attempt_i < Attempts
    /\ calls' = calls + 1
    /\ last_exc' = "EDEADLK"
    /\ \E d \in FuncDurations :
          IF elapsed + d >= MaxElapsed
          THEN /\ elapsed' = elapsed + d
               /\ deadline_hit' = TRUE
               /\ retry_outcome' = "TimeoutError"
               /\ wpc' = "done"
               /\ UNCHANGED <<attempt_i, sleeps>>
          ELSE /\ elapsed' = elapsed + d + CappedSleep(attempt_i)
               /\ sleeps' = Append(sleeps, CappedSleep(attempt_i))
               /\ attempt_i' = attempt_i + 1
               /\ UNCHANGED deadline_hit
               /\ IF attempt_i + 1 < Attempts
                  THEN UNCHANGED <<wpc, retry_outcome>>
                  ELSE retry_outcome' = "TimeoutError" /\ wpc' = "done"
    /\ UNCHANGED exceptRetry

\* except OSError as e, with another errno: raise.  An exception that is
\* not an OSError is not caught at all.
FuncRaisesOther ==
    /\ wpc = "try"
    /\ attempt_i < Attempts
    /\ \E d \in FuncDurations : elapsed' = elapsed + d
    /\ calls' = calls + 1
    /\ \E exc \in {"OSError", "ValueError"} :
          /\ last_exc' = IF exc = "OSError" THEN "OSError" ELSE last_exc
          /\ retry_outcome' = exc
    /\ wpc' = "done"
    /\ UNCHANGED <<attempt_i, sleeps, deadline_hit>>
    /\ UNCHANGED exceptRetry

NextRetry ==
    \/ WithRetriesCall
    \/ FuncReturns
    \/ FuncRaisesTransient
    \/ FuncRaisesOther

(***************************************************************************)
(* Concurrent grading invocations (agent.py, _run_assess_internal; the     *)
(* scoring block of run_eval in agent_a2a.py stages into the same path).   *)
(* Each invocation stages the outputs into                                 *)
(* /tmp/purple_output_cache/<purple_output_subdir or task_id>, submits     *)
(* score_output to a one-thread executor inside a `with` block, and waits  *)
(* with future.result(timeout=SCORE_TIMEOUT).  Leaving the `with` block,   *)
(* normally or by an exception, calls executor.shutdown(wait=True), which  *)
(* returns when the worker thread has finished.                            *)
(***************************************************************************)
Gradings == 1..MaxGradings

\* purple_output_subdir or task_id
Subdirs == {"T1_single_page", "T2_multi_page"}

\* for name in ["data.jsonl", "metadata.json", "run.log", ...]
CopyOrder == <<"data.jsonl", "metadata.json", "run.log">>

\* The invocation g has staged its copy and its scoring pass has not ended.
Reading(g) ==
    apc[g] \in {"submit", "waiting", "shutdown"} /\ worker[g] # "finished"

\* Invocation g writes into tmp_dir d (rmtree, or open(dst, "wb")): every
\* other invocation that is reading its staged copy in d has it changed.
Disturb(g, d) ==
    [h \in Gradings |->
        disturbed[h] \/ (h # g /\ subdir[h] = d /\ Reading(h))]

InitAssess ==
    /\ apc = [g \in Gradings |-> "idle"]
    /\ subdir = [g \in Gradings |-> "T1_single_page"]
    /\ copied = [g \in Gradings |-> 0]
    /\ worker = [g \in Gradings |-> "none"]
    /\ timed_out = [g \in Gradings |-> FALSE]
    /\ reply = [g \in Gradings |-> "none"]
    /\ cache = [d \in Subdirs |-> {}]
    /\ disturbed = [g \in Gradings |-> FALSE]

\* _run_assess_internal(task_id, purple_output_subdir) is called; the task
\* is known and the mock service is configured.
AssessStart(g) ==
    /\ apc[g] = "idle"
    /\ \E d \in Subdirs : subdir' = [subdir EXCEPT ![g] = d]
    /\ apc' = [apc EXCEPT ![g] = "rmtree"]
    /\ UNCHANGED <<copied, worker, timed_out, reply, cache, disturbed>>
    /\ UNCHANGED exceptAssess

\* if tmp_dir.exists(): shutil.rmtree(tmp_dir)
StageRmtree(g) ==
    /\ apc[g] = "rmtree"
    /\ IF cache[subdir[g]] # {}
       THEN /\ cache' = [cache EXCEPT ![subdir[g]] = {}]
            /\ disturbed' = Disturb(g, subdir[g])
       ELSE UNCHANGED <<cache, disturbed>>
    /\ apc' = [apc EXCEPT ![g] = "copy"]
    /\ UNCHANGED <<subdir, copied, worker, timed_out, reply>>
    /\ UNCHANGED exceptAssess

\* _copy_output_dir_retry: one _copy_file_retry of the for loop
StageCopy(g) ==
    /\ apc[g] = "copy"
    /\ copied[g] < Len(CopyOrder)
    /\ cache' = [cache EXCEPT ![subdir[g]] = @ \cup {CopyOrder[copied[g] + 1]}]
    /\ disturbed' = Disturb(g, subdir[g])
    /\ copied' = [copied EXCEPT ![g] = @ + 1]
    /\ apc' = [apc EXCEPT ![g] =
                  IF copied[g] + 1 = Len(CopyOrder) THEN "submit" ELSE "copy"]
    /\ UNCHANGED <<subdir, worker, timed_out, reply>>
    /\ UNCHANGED exceptAssess

\* future = executor.submit(score_output, tmp_dir, ...)
Submit(g) ==
    /\ apc[g] = "submit"
    /\ worker' = [worker EXCEPT ![g] = "running"]
    /\ apc' = [apc EXCEPT ![g] = "waiting"]
    /\ UNCHANGED <<subdir, copied, timed_out, reply, cache, disturbed>>
    /\ UNCHANGED exceptAssess

\* The worker thread finishes score_output.  Nothing obliges it to.
WorkerFinishes(g) ==
    /\ worker[g] = "running"
    /\ worker' = [worker EXCEPT ![g] = "finished"]
    /\ UNCHANGED <<apc, subdir, copied, timed_out, reply, cache, disturbed>>
    /\ UNCHANGED exceptAssess

\* result = future.result(timeout=SCORE_TIMEOUT) returns; the `with` block
\* is left and the dict is returned.
ResultReturned(g) ==
    /\ apc[g] = "waiting"
    /\ worker[g] = "finished"
    /\ reply' = [reply EXCEPT ![g] = "dict"]
    /\ apc' = [apc EXCEPT ![g] = "returned"]
    /\ UNCHANGED <<subdir, copied, worker, timed_out, cache, disturbed>>
    /\ UNCHANGED exceptAssess

\* except concurrent.futures.TimeoutError: raise HTTPException(504), still
\* inside the `with` block.
TimeoutFires(g) ==
    /\ apc[g] = "waiting"
    /\ worker[g] = "running"
    /\ timed_out' = [timed_out EXCEPT ![g] = TRUE]
    /\ apc' = [apc EXCEPT ![g] = "shutdown"]
    /\ UNCHANGED <<subdir, copied, worker, reply, cache, disturbed>>
    /\ UNCHANGED exceptAssess

\* ThreadPoolExecutor.__exit__: shutdown(wait=True) returns once the worker
\* has finished; then the HTTPException reaches the caller.
ShutdownReturns(g) ==
    /\ apc[g] = "shutdown"
    /\ worker[g] = "finished"
    /\ reply' = [reply EXCEPT ![g] = "HTTPException 504"]
    /\ apc' = [apc EXCEPT ![g] = "returned"]
    /\ UNCHANGED <<subdir, copied, worker, timed_out, cache, disturbed>>
    /\ UNCHANGED exceptAssess

\* The steps of the thread that runs _run_assess_internal for g.
CallerStep(g) ==
    \/ AssessStart(g)
    \/ StageRmtree(g)
    \/ StageCopy(g)
    \/ Submit(g)
    \/ ResultReturned(g)
    \/ TimeoutFires(g)
    \/ ShutdownReturns(g)

NextAssess ==
    \E g \in Gradings :
        \/ AssessStart(g)
        \/ StageRmtree(g)
        \/ StageCopy(g)
        \/ Submit(g)
        \/ WorkerFinishes(g)
        \/ ResultReturned(g)
        \/ TimeoutFires(g)
        \/ ShutdownReturns(g)

(***************************************************************************)
(* _sha256_file (judge.py): h = hashlib.sha256() is created once, outside  *)
(* the function _read_all that _with_retries runs; every run of _read_all  *)
(* opens the file again and feeds the chunks it reads to the same h.       *)
(* A chunk is what one f.read(1024 * 1024) returns.                        *)
(***************************************************************************)
\* The contents of the file: up to MaxChunks chunks.
Chunks == {"a", "b"}
FileContents == SeqsUpTo(Chunks, MaxChunks)

\* hexdigest() of a hasher that was fed the chunks bs, in order: SHA-256 of
\* their concatenation (taken to be free of collisions).
Sha256(bs) == [algorithm |-> "sha256", message |-> bs]

InitHash ==
    /\ hpc = "idle"
    /\ file_chunks = <<>>
    /\ read_pos = 0
    /\ hasher = <<>>
    /\ read_attempt = 0
    /\ read_failures = 0
    /\ digest = "none"

\* _sha256_file(p): h = hashlib.sha256(); _with_retries(_read_all) starts
\* its for loop and _read_all opens the file.
Sha256FileCall ==
    /\ hpc = "idle"
    /\ \E c \in FileContents : file_chunks' = c
    /\ hasher' = <<>>
    /\ read_pos' = 0
    /\ read_attempt' = 0
    /\ hpc' = "reading"
    /\ UNCHANGED <<read_failures, digest>>
    /\ UNCHANGED exceptHash

\* for chunk in iter(lambda: f.read(1024 * 1024), b""): h.update(chunk)
ReadChunk ==
    /\ hpc = "reading"
    /\ read_pos < Len(file_chunks)
    /\ hasher' = Append(hasher, file_chunks[read_pos + 1])
    /\ read_pos' = read_pos + 1
    /\ UNCHANGED <<file_chunks, read_attempt, read_failures, hpc, digest>>
    /\ UNCHANGED exceptHash

\* f.read returns b"": _read_all and _with_retries return;
\* return h.hexdigest()
ReadEnds ==
    /\ hpc = "reading"
    /\ read_pos = Len(file_chunks)
    /\ digest' = Sha256(hasher)
    /\ hpc' = "returned"
    /\ UNCHANGED <<file_chunks, read_pos, hasher, read_attempt, read_failures>>
    /\ UNCHANGED exceptHash

\* p.open or f.read raises OSError with errno in _RETRY_ERRNOS: _with_retries
\* breaks when the deadline has passed, otherwise sleeps and calls _read_all
\* again, which opens the file again; when the for loop is over it raises
\* TimeoutError.
ReadRaisesTransient ==
    /\ hpc = "reading"
    /\ read_failures < MaxReadFailures
    /\ read_failures' = read_failures + 1
    /\ \E late \in BOOLEAN :
          IF late \/ read_attempt + 1 >= Attempts
          THEN /\ hpc' = "raised"
               /\ digest' = "TimeoutError"
               /\ UNCHANGED <<read_attempt, read_pos>>
          ELSE /\ read_attempt' = read_attempt + 1
               /\ read_pos' = 0
               /\ UNCHANGED <<hpc, digest>>
    /\ UNCHANGED <<file_chunks, hasher>>
    /\ UNCHANGED exceptHash

\* p.open or f.read raises another OSError: raise
ReadRaisesOther ==
    /\ hpc = "reading"
    /\ hpc' = "raised"
    /\ digest' = "OSError"
    /\ UNCHANGED <<file_chunks, read_pos, hasher, read_attempt, read_failures>>
    /\ UNCHANGED exceptHash

NextHash ==
    \/ Sha256FileCall
    \/ ReadChunk
    \/ ReadEnds
    \/ ReadRaisesTransient
    \/ ReadRaisesOther

Init ==
    /\ InitFetch /\ InitScore /\ InitProcess /\ InitValidate /\ InitGrade
    /\ InitRetry
    /\ InitAssess
    /\ InitHash

SpecFetch == Init /\ [][NextFetch]_vars

\* _fetch_all_pages runs on: a step that can be taken is taken.
SpecFetchLive == Init /\ [][NextFetch]_vars /\ WF_fetchVars(NextFetch)

SpecScore == Init /\ [][NextScore]_vars

SpecProcess == Init /\ [][NextProcess]_vars

SpecValidate == Init /\ [][NextValidate]_vars

SpecGrade == Init /\ [][NextGrade]_vars

SpecRetry == Init /\ [][NextRetry]_vars

SpecAssess == Init /\ [][NextAssess]_vars

SpecHash == Init /\ [][NextHash]_vars

\* The caller threads keep running; a worker thread may hang for ever.
SpecAssessLive ==
    Init /\ [][NextAssess]_vars /\ \A g \in Gradings : WF_vars(CallerStep(g))

(***************************************************************************)
(* Properties of the retrieval engine, checked under SpecFetch.            *)
(***************************************************************************)
BackoffSequence == <<1, 2, 4>>

\* C6: a _fetch_with_retry call whose every attempt so far was answered by
\* 429, 500 or a transport failure has slept exactly 1, 2, 4 after its 1st,
\* 2nd, 3rd attempt; it is still running before its 4th attempt, and once it
\* has returned it has made exactly max_retries + 1 = 4 attempts, slept
\* nothing after the last one and returned None.
C6_BoundedBackoff ==
    (curGets > 0 /\ allTransient) =>
        /\ curGets <= MaxRetries + 1
        /\ curWaits = SubSeq(BackoffSequence, 1, Min(curGets, MaxRetries))
        /\ (fpc = "get" => curGets <= MaxRetries /\ lastWait = BackoffSequence[curGets])
        /\ (fpc # "get" =>
               /\ curGets = MaxRetries + 1
               /\ curWaits = BackoffSequence
               /\ lastWait = 0
               /\ result = None)

\* C6 witness: a call returned after four transient answers.
C6_Witness ==
    /\ fpc = "body"
    /\ allTransient
    /\ curGets = 4
    /\ curWaits = <<1, 2, 4>>
    /\ result = None

\* C7: once a _fetch_with_retry call has returned None, no further GET is
\* sent, and _fetch_all_pages ends normally returning exactly the rows the
\* source delivered in the earlier successful answers, in arrival order.
C7_PartialResultOnExhaustion ==
    failedAt >= 0 =>
        /\ nGets = failedAt
        /\ fpc \in {"body", "done"}
        /\ all_rows = delivered
        /\ Len(all_rows) = reqLog[Len(reqLog)].acc

\* C7 witness: the third request failed after two requests delivered rows.
C7_Witness ==
    /\ fpc = "done"
    /\ failedAt >= 0
    /\ Len(reqLog) = 3
    /\ Len(all_rows) >= 2
    /\ all_rows = delivered

\* C8 (as claimed): after an HTTP error status other than 429 and 500 the
\* engine neither sleeps for a backoff nor sends another GET.
C8_PermanentNotRetried ==
    permSeen => (~permSlept /\ ~permRetried)

\* C9 (as claimed): the number of GETs sent, retries included, never exceeds
\* max_requests.
C9_MaxRequestsBoundsAttempts ==
    nGets <= max_requests

\* C10: in page mode the i-th _fetch_with_retry call asks for page i, with
\* i <= max_requests and fewer than total_rows rows accumulated when it is
\* made, and no call follows one that handed back fewer than page_size rows.
C10_PageMode ==
    paging_mode = "page" =>
        \A i \in 1..Len(reqLog) :
            /\ reqLog[i].param = i
            /\ i <= max_requests
            /\ reqLog[i].acc < total_rows
            /\ (i < Len(reqLog) => reqLog[i].got >= page_size)

\* C10 witness: page 2 was the last page, shorter than page_size.
C10_Witness ==
    /\ paging_mode = "page"
    /\ fpc = "done"
    /\ Len(reqLog) = 2
    /\ reqLog[2].param = 2
    /\ reqLog[2].got \in 0..(page_size - 1)

\* C11: in offset mode every _fetch_with_retry call asks for the offset equal
\* to the number of rows accumulated when it is made, the first offset is 0
\* and each later one is larger than the one before; a call is made only
\* with offset < total_rows and offset // page_size < max_requests; and no
\* call follows one that handed back zero rows.
C11_OffsetMode ==
    paging_mode = "offset" =>
        \A i \in 1..Len(reqLog) :
            /\ reqLog[i].param = reqLog[i].acc
            /\ (i = 1 => reqLog[i].param = 0)
            /\ reqLog[i].param < total_rows
            /\ (reqLog[i].param \div page_size) < max_requests
            /\ (i < Len(reqLog) =>
                   /\ reqLog[i].got > 0
                   /\ reqLog[i + 1].param = reqLog[i].param + reqLog[i].got)

\* C11 witness: the second request, at a positive offset, returned no row.
C11_Witness ==
    /\ paging_mode = "offset"
    /\ fpc = "done"
    /\ Len(reqLog) = 2
    /\ reqLog[2].param > 0
    /\ reqLog[2].got = 0

(***************************************************************************)
(* Properties of the scorer, checked under SpecScore.                      *)
(***************************************************************************)
\* C1 (as claimed): whenever score_output returns a ScoreResult, from any of
\* its return statements, total lies in [0, 100] and equals the sum of the
\* six breakdown values rounded to one decimal place.
C1_TotalIsRoundedSum ==
    outcome = "ScoreResult" =>
        /\ 0 <= total /\ total <= Pts(100)
        /\ total = Round1(SumBreakdown(breakdown))

\* C2: an artifact with all three files and parseable metadata that lacks at
\* least one of task_id, query, row_count, schema, dedup_key is returned with
\* efficiency exactly 0, whatever efficiency was computed for it.
C2_CompletenessGate ==
    (return_site = "scored" /\ metaHas # needed_meta_fields) =>
        breakdown["efficiency"] = 0

\* C2 witness: full efficiency was computed and the gate took it away.
C2_Witness ==
    /\ return_site = "scored"
    /\ Cardinality(metaHas) = 4
    /\ raw["efficiency"] = Pts(15)
    /\ raw["correctness"] >= Pts(21)
    /\ breakdown["efficiency"] = 0

C4_GatesIdempotent ==
    return_site = "scored" => GovernanceGates(breakdown) = breakdown

\* C5: on every breakdown score_output computes, gate 1 then gate 2 gives
\* the same values as gate 2 then gate 1, and neither gate, applied first or
\* second, makes any dimension larger.
C5_GatesCommuteAndReduce ==
    spc = "gates" =>
        /\ Gate2(Gate1(breakdown)) = Gate1(Gate2(breakdown))
        /\ \A d \in Dimensions :
              /\ Gate1(breakdown)[d] <= breakdown[d]
              /\ Gate2(breakdown)[d] <= breakdown[d]
              /\ Gate2(Gate1(breakdown))[d] <= Gate1(breakdown)[d]
              /\ Gate1(Gate2(breakdown))[d] <= Gate2(breakdown)[d]

\* C5 witness: both gates fire on a breakdown with efficiency and
\* observability to lose.
C5_Witness ==
    /\ spc = "gates"
    /\ CompletenessGateFires(breakdown)
    /\ CorrectnessGateFires(breakdown)
    /\ breakdown["efficiency"] > 0
    /\ breakdown["observability"] > 0

(***************************************************************************)
(* Properties of _process_rows, checked under SpecProcess.                 *)
(***************************************************************************)
\* Arrival positions of the rows that meet all three totals conditions.
TotalsPositions ==
    {i \in 1..Len(in_rows) :
        in_rows[i].isTotal = TRUE /\ in_rows[i].partner = "WLD"
            /\ in_rows[i].hs = "TOTAL"}

\* C12: for T7_totals_trap the totals step drops a row if and only if
\* isTotal is true and partner is "WLD" and hs is "TOTAL", keeps the other
\* rows in order, and totals_dropped is the number of rows meeting all three;
\* for any other task it drops nothing and totals_dropped is 0.
C12_TotalsSuppression ==
    ppc \in {"dedup", "sort", "done"} =>
        IF in_task_id = "T7_totals_trap"
        THEN /\ filtered = SelectSeq(in_rows,
                    LAMBDA r : ~(r.isTotal = TRUE /\ r.partner = "WLD"
                                    /\ r.hs = "TOTAL"))
             /\ totals_dropped = Cardinality(TotalsPositions)
        ELSE /\ filtered = in_rows
             /\ totals_dropped = 0

\* C12 witness: one totals row was dropped and two rows meeting two of the
\* three conditions were kept.
C12_Witness ==
    /\ ppc = "done"
    /\ process_outcome = "returned"
    /\ in_task_id = "T7_totals_trap"
    /\ Len(in_rows) = 3
    /\ totals_dropped = 1
    /\ Len(filtered) = 2
    /\ \E i \in 1..2 : filtered[i].isTotal = TRUE /\ filtered[i].partner = "WLD"
    /\ \E i \in 1..2 : filtered[i].partner = "WLD" /\ filtered[i].hs = "TOTAL"

\* The row that arrived first among the filtered rows with key tuple k.
FirstWithKey(k) ==
    filtered[CHOOSE i \in 1..Len(filtered) :
                /\ KeyOf(filtered[i], dedup_key) = k
                /\ \A j \in 1..(i - 1) : KeyOf(filtered[j], dedup_key) # k]

\* rs holds, for every key tuple of the filtered rows, exactly one row, the
\* first that arrived with it, and nothing else.
KeepsFirstOccurrences(rs) ==
    /\ \A i \in 1..Len(filtered) :
          Cardinality({j \in 1..Len(rs) :
              KeyOf(rs[j], dedup_key) = KeyOf(filtered[i], dedup_key)}) = 1
    /\ \A j \in 1..Len(rs) :
          /\ \E i \in 1..Len(filtered) :
                KeyOf(filtered[i], dedup_key) = KeyOf(rs[j], dedup_key)
          /\ rs[j] = FirstWithKey(KeyOf(rs[j], dedup_key))

\* C13: after deduplication, and in the rows _process_rows returns, every
\* dedup-key tuple of the rows left by the totals step occurs exactly once,
\* on the row that arrived first with it; later rows with the same tuple are
\* gone even when their other fields differ.
C13_DedupKeepsFirst ==
    /\ ppc \in {"sort", "done"} => KeepsFirstOccurrences(unique_rows)
    /\ process_outcome = "returned" => KeepsFirstOccurrences(sorted_rows)

\* C13 witness: two rows with the same key and different values arrived; the
\* first survives.
C13_Witness ==
    /\ process_outcome = "returned"
    /\ Len(filtered) = 3
    /\ Len(sorted_rows) = 2
    /\ \E i, j \in 1..3 :
          /\ i < j
          /\ KeyOf(filtered[i], dedup_key) = KeyOf(filtered[j], dedup_key)
          /\ filtered[i] # filtered[j]
          /\ \E n \in 1..2 : sorted_rows[n] = filtered[i]

\* C14: processing the rows _process_rows returned, with the same task id
\* and dedup key, returns the identical row sequence.
C14_Idempotent ==
    process_outcome = "returned" =>
        /\ ProcessRows(sorted_rows, in_task_id, dedup_key).outcome = "returned"
        /\ ProcessRows(sorted_rows, in_task_id, dedup_key).rows = sorted_rows

\* C14 witness: the first pass dropped a totals row and reordered the two
\* rows that were left.
C14_Witness ==
    /\ process_outcome = "returned"
    /\ totals_dropped = 1
    /\ Len(sorted_rows) = 2
    /\ sorted_rows # unique_rows

\* The input rows in the arrival order given by the permutation p.
Permuted(p) == [i \in 1..Len(in_rows) |-> in_rows[p[i]]]

KeysOf(rs) == [i \in 1..Len(rs) |-> KeyOf(rs[i], dedup_key)]

\* Rows left by the totals step that agree on the key agree everywhere.
KeyEqualRowsAreEqual ==
    \A i, j \in 1..Len(filtered) :
        KeyOf(filtered[i], dedup_key) = KeyOf(filtered[j], dedup_key)
            => filtered[i] = filtered[j]

\* C15: for every permutation of the input rows _process_rows ends the same
\* way, returning the same sequence of dedup-key tuples and the same
\* totals_dropped, and the identical rows when key-equal rows are equal in
\* all fields.
C15_OrderIndependent ==
    ppc = "done" =>
        \A p \in Permutations(1..Len(in_rows)) :
            LET r == ProcessRows(Permuted(p), in_task_id, dedup_key)
            IN  /\ r.outcome = process_outcome
                /\ process_outcome = "returned" =>
                      /\ KeysOf(r.rows) = KeysOf(sorted_rows)
                      /\ r.totals_dropped = totals_dropped
                      /\ (KeyEqualRowsAreEqual => r.rows = sorted_rows)

\* C15 witness: three rows arrived out of key order, two of them key-equal
\* with different values, and another arrival order makes the other survive.
C15_Witness ==
    /\ process_outcome = "returned"
    /\ Len(in_rows) = 3
    /\ Len(sorted_rows) = 2
    /\ sorted_rows # unique_rows
    /\ ~KeyEqualRowsAreEqual
    /\ \E p \in Permutations(1..3) :
          ProcessRows(Permuted(p), in_task_id, dedup_key).rows # sorted_rows

\* C16 (as claimed): whatever rows arrive, rows lacking a dedup-key field
\* included, _process_rows completes and returns a result.
C16_MissingKeyIsNotAnError ==
    ppc = "done" => process_outcome = "returned"

(***************************************************************************)
(* Properties of the validator, checked under SpecValidate.                *)
(***************************************************************************)
\* C17 (as claimed): the stages run in program order, none after a failing
\* one; a run that ends at a failing stage exits non-zero having reported
\* exactly that stage's code; and exit status 0 is reached only after every
\* stage has run and passed.
C17_StagedPipeline ==
    /\ stages_run = SubSeq(StageOrder(fault_mode, task_query), 1, Len(stages_run))
    /\ vpc = "exited" =>
          IF exit_status = 0
          THEN /\ stages_run = StageOrder(fault_mode, task_query)
               /\ reported = "none"
          ELSE reported = StageCode(stages_run[Len(stages_run)])

(***************************************************************************)
(* A missing required file, seen by the validator and by the scorer.       *)
(* Checked under SpecScore; the validator's stages are applied to the      *)
(* directory the scorer was given.                                         *)
(***************************************************************************)
\* C18: when output_dir exists and lacks a required file, the validator
\* passes its directory stage and fails its files stage with E002, and
\* score_output returns at once with completeness = 10 * (files present / 3)
\* <= 10, every other dimension 0, total equal to that completeness value,
\* and nothing computed by a later section or by the governance gates.
C18_MissingRequiredFile ==
    /\ (spc # "files" /\ missing # {}) => return_site = "missing_files"
    /\ return_site = "missing_files" =>
          /\ missing # {}
          /\ files_present = Cardinality(REQUIRED_FILES \ missing)
          /\ validate_directory_exists("dir") = Pass
          /\ validate_required_files(REQUIRED_FILES \ missing) = ErrorExit("E002")
          /\ outcome = "ScoreResult"
          /\ spc = "returned"
          /\ 3 * breakdown["completeness"] = files_present * Pts(10)
          /\ breakdown["completeness"] <= Pts(10)
          /\ \A d \in Dimensions \ {"completeness"} : breakdown[d] = 0
          /\ total = breakdown["completeness"]
          /\ raw = ZeroBreakdown
          /\ governance_applied = <<>>

\* C18 witness: only run.log is missing; the partial score is 20/3 points.
C18_Witness ==
    /\ return_site = "missing_files"
    /\ missing = {"run.log"}
    /\ 3 * total = Pts(20)

(***************************************************************************)
(* Properties of the grading entry points, checked under SpecGrade.        *)
(***************************************************************************)
\* C19 (as claimed): when the wait for the scoring pass timed out, what the
\* entry point gives its caller for that task is an error that tells the
\* timeout apart and carries no score value: _run_assess_internal raises
\* HTTPException 504 and returns no dict, and run_eval records no
\* score_total for the task.
C19_TimeoutIsNotAScore ==
    /\ (response.kind # "none" /\ scoring_ends = <<"timeout">> /\ all_results = <<>>) =>
          /\ response.kind = "HTTPException"
          /\ response.status_code = 504
          /\ ~response.has_score_total
    /\ \A i \in 1..Len(all_results) :
          scoring_ends[i] = "timeout" =>
              /\ ~all_results[i].has_score_total
              /\ all_results[i].error = "timed out"

(***************************************************************************)
(* Properties of _with_retries, checked under SpecRetry.                   *)
(***************************************************************************)
\* C20: func is called at most 10 times; a success ends the call at once
\* with func's value; each transient error met before the deadline is
\* followed by a sleep of min(base_sleep * 2**i, max_sleep), and by another
\* call while attempts remain; TimeoutError is raised only after a
\* transient error with the attempts or the elapsed time used up; any other
\* OSError ends the call at once, with no sleep and no further call.
C20_BoundedRetry ==
    /\ calls <= Attempts
    /\ \A k \in 1..Len(sleeps) :
          sleeps[k] = (IF Pow2(k - 1) < 10 THEN Pow2(k - 1) ELSE 10)
    /\ wpc = "try" =>
          /\ calls < Attempts
          /\ Len(sleeps) = calls
          /\ elapsed < MaxElapsed + 10
          /\ calls > 0 => last_exc = "EDEADLK"
    /\ retry_outcome = "value" => Len(sleeps) = calls - 1
    /\ retry_outcome = "OSError" =>
          (last_exc = "OSError" /\ Len(sleeps) = calls - 1)
    /\ retry_outcome = "TimeoutError" =>
          /\ last_exc = "EDEADLK"
          /\ IF deadline_hit
             THEN elapsed >= MaxElapsed /\ Len(sleeps) = calls - 1
             ELSE calls = Attempts /\ Len(sleeps) = Attempts

\* C20 witness: ten transient errors in a row, none reaching the deadline.
C20_Witness ==
    /\ retry_outcome = "TimeoutError"
    /\ ~deadline_hit
    /\ calls = 10
    /\ sleeps = <<1, 2, 4, 8, 10, 10, 10, 10, 10, 10>>

(***************************************************************************)
(* Properties of concurrent gradings, checked under SpecAssess.            *)
(***************************************************************************)
\* C21 (as claimed): between the end of an invocation's staging and the end
\* of its scoring pass, no other invocation deletes or rewrites the staged
\* copy it reads, also when both grade the same output subdirectory.
C21_GradingsIsolated ==
    \A g \in Gradings : ~disturbed[g]

\* C23 (as claimed): once future.result has timed out, _run_assess_internal
\* eventually gives its caller the timed-out condition, whether or not the
\* scoring worker ever finishes.
C23_TimeoutReturnsWithoutWorker ==
    \A g \in Gradings : timed_out[g] ~> (apc[g] = "returned")

(***************************************************************************)
(* Further properties of score_output, checked under SpecScore.            *)
(***************************************************************************)
\* C22 (as claimed): an I/O failure while score_output reads the artifact
\* (a non-transient OSError, or the TimeoutError of exhausted retries) leaves
\* score_output as an error; it is never turned into a returned score.
C22_IOFailureIsNotAScore ==
    ~(outcome = "ScoreResult" /\ return_site = "unreadable_metadata")

\* C27 (as claimed): the efficiency baseline does not depend on the task_id
\* written in metadata.json: artifacts that differ only in that field get
\* the same efficiency points.
C27_BaselineIgnoresMetaTaskId ==
    spc = "data_quality" =>
        \A rc \in RequestCounts, et \in ExecTimes :
            \A t1, t2 \in MetaTaskIds :
                EfficiencyScore(t1, rc, et) = EfficiencyScore(t2, rc, et)

\* C28 (as claimed): an artifact holding all three required files never
\* scores below what it would score with one of them removed.
C28_RemovingAFileNeverHelps ==
    (outcome = "ScoreResult" /\ files_present = Cardinality(REQUIRED_FILES)) =>
        total >= PartialFilesScore(Cardinality(REQUIRED_FILES) - 1)

(***************************************************************************)
(* Further properties of the fetch loop, checked under SpecFetch.          *)
(***************************************************************************)
\* C24 (as claimed): one fetch_all issues at most max_requests distinct
\* page/offset requests (retries of a request not counted), in both paging
\* modes, also when the source answers with fewer than page_size rows.
C24_AtMostMaxRequests ==
    Len(reqLog) <= max_requests

\* C29 (as claimed): inside one _fetch_with_retry call, attempt k+1 is
\* issued only after a wait of exactly 2^k that follows attempt k, whatever
\* the non-successful outcome of attempt k was.
C29_EveryRetryAfterBackoff ==
    (fpc = "get" /\ curGets > 0) => lastWait = Pow2(curGets - 1)

(***************************************************************************)
(* The canonical output of _process_rows, checked under SpecProcess.       *)
(***************************************************************************)
\* a comes before b when the tuples are compared field by field in the
\* key's declared order.
LexBefore(a, b) ==
    \E i \in 1..Len(a) :
        /\ \A j \in 1..(i - 1) : a[j] = b[j]
        /\ a[i] # b[i]
        /\ Rank(a[i]) < Rank(b[i])

\* Arrival positions of the rows the totals rule lets through.
KeptPositions ==
    {i \in 1..Len(in_rows) :
        ~(in_task_id = "T7_totals_trap" /\ i \in TotalsPositions)}

\* Arrival positions of the rows discarded as duplicates: an earlier row
\* that was let through has the same dedup-key tuple.
DuplicatePositions ==
    {i \in KeptPositions :
        \E j \in KeptPositions :
            j < i /\ KeyOf(in_rows[j], dedup_key) = KeyOf(in_rows[i], dedup_key)}

\* C25: whenever _process_rows returns, the returned rows are in ascending
\* order of their dedup-key tuples, no two of them have the same tuple, each
\* of them is one of the input rows unchanged, and the input length is the
\* output length plus the totals rows dropped plus the duplicates discarded.
C25_CanonicalOutput ==
    process_outcome = "returned" =>
        /\ \A i, j \in 1..Len(sorted_rows) :
              i < j => LexBefore(KeyOf(sorted_rows[i], dedup_key),
                                 KeyOf(sorted_rows[j], dedup_key))
        /\ \A i, j \in 1..Len(sorted_rows) :
              i # j => KeyOf(sorted_rows[i], dedup_key)
                          # KeyOf(sorted_rows[j], dedup_key)
        /\ \A i \in 1..Len(sorted_rows) :
              \E j \in 1..Len(in_rows) : sorted_rows[i] = in_rows[j]
        /\ Len(in_rows) = Len(sorted_rows) + totals_dropped
                              + Cardinality(DuplicatePositions)

\* C25 witness: three rows arrived, one was discarded as a duplicate of a
\* row that is not its neighbour, and the sort moved the two rows returned.
C25_Witness ==
    /\ process_outcome = "returned"
    /\ Len(in_rows) = 3
    /\ DuplicatePositions = {3}
    /\ KeyOf(in_rows[1], dedup_key) = KeyOf(in_rows[3], dedup_key)
    /\ Len(sorted_rows) = 2
    /\ sorted_rows[1] = in_rows[2]

(***************************************************************************)
(* Properties of _sha256_file, checked under SpecHash.                     *)
(***************************************************************************)
\* C26 (as claimed): the digest _sha256_file returns is the hash of the
\* file's bytes taken exactly once, also when a transient error interrupted
\* a read part-way and _with_retries ran the read again.
C26_DigestOfFileOnce ==
    hpc = "returned" => digest = Sha256(file_chunks)

(***************************************************************************)
(* Termination of the fetch loop, checked under SpecFetchLive.             *)
(***************************************************************************)
\* C30: for positive page_size, max_requests and total_rows, in both
\* paging modes and for every behaviour of the source (any sequence of
\* statuses, transport failures, empty, short or oversized pages),
\* _fetch_all_pages eventually returns; every step up to then is one request,
\* one wait or one pass of the loop, so it returns after finitely many.
C30_FetchAllTerminates ==
    <>(fpc = "done")

\* C30 witness: an offset-mode call returned after a short page led to a
\* second request and after a retry with its wait.
C30_Witness ==
    /\ fpc = "done"
    /\ paging_mode = "offset"
    /\ Len(reqLog) = 2
    /\ reqLog[2].param < page_size
    /\ nGets > Len(reqLog)
    /\ clock > 0

====
